---------------------------- MODULE Spec2Model ----------------------------
(***************************************************************************)
(* State-machine model of walue_whatsapp_provider: the OAuth credential    *)
(* authority (api/oauth.py), the usage ledger written by the proxy         *)
(* endpoints (api/messages.py, api/calls.py, api/metrics.py) and the       *)
(* scheduled jobs (tasks.py).                                              *)
(*                                                                         *)
(* Money is counted in units of 0.0001 currency (the 4 decimal places the  *)
(* code rounds to), call minutes in units of 1/60 minute (seconds), time   *)
(* in seconds and dates in days.                                           *)
(***************************************************************************)
EXTENDS Integers, Sequences, FiniteSets

VARIABLES
    now,          \* wall clock in seconds (datetime.utcnow / datetime.now)
    status,       \* WhatsApp Customer.status per tenant ("Absent": no record)
    embedded_signup_completed, \* WhatsApp Customer.embedded_signup_completed per tenant
    oauthCodes,   \* cache entries "oauth_code:<code>": code -> payload
    nextCode,     \* number of codes drawn from secrets.token_urlsafe so far
    tokReqs,      \* authorization_code grants between cache lookup and delete
    nextReq,      \* number of token() requests admitted so far
    minted,       \* every token _generate_tokens has signed
    redeemed,     \* history: codes for which some token() call returned a pair
    grants,       \* history: (code, request) pairs that returned a token pair
    last,         \* history: the most recent response of an OAuth endpoint
    ticks,        \* number of clock steps taken (bounds the clock)
    settings,     \* WhatsApp Provider Settings (single document)
    frappe_site_url, \* tenant -> the site URL on its WhatsApp Customer record
    today,        \* date.today() as a day number
    daily,        \* table Daily Usage Metrics: a set of rows
    nextRow,      \* number of Daily Usage Metrics rows inserted so far
    sessions,     \* cache entries "call_session:<id>": id -> metadata
    nextSession,  \* number of call sessions created so far
    ledReqs,      \* recording requests between existence check and commit
    nextLedReq,   \* number of recording requests admitted so far
    asked,        \* history: messages the handlers set out to record, per key
    reply,        \* history: the most recent response of a proxy endpoint
    monthly,      \* table Monthly Usage Summary: a set of rows
    nextSummary,  \* number of Monthly Usage Summary rows inserted so far
    invoices,     \* table Customer Invoice: a set of rows
    aggJob,       \* the running aggregate_usage_metrics job, if any
    invJob,       \* the running generate_monthly_invoices job, if any
    aggRuns,      \* number of aggregation runs started
    invRuns,      \* history: per invoicing run, its month and what it found
    dayTicks,     \* number of calendar steps taken (bounds today)
    outbox,       \* invoices whose notification e-mail was sent
    jobLog,       \* history: errors the jobs logged with frappe.log_error
    aggHist,      \* history: per summary key, what the last two runs read and wrote
    aggOverlap    \* a second aggregate_usage_metrics job running beside aggJob, if any

oauthVars == <<oauthCodes, nextCode, tokReqs, nextReq, redeemed, grants, last,
               ticks, settings, frappe_site_url>>

authVars == <<now, status, minted, embedded_signup_completed>>

ledgerVars == <<today, daily, nextRow, sessions, nextSession,
                ledReqs, nextLedReq, asked, reply>>

jobVars == <<monthly, nextSummary, invoices, aggJob, invJob, aggRuns, invRuns,
             dayTicks, outbox, jobLog, aggHist, aggOverlap>>

vars == <<authVars, oauthVars, ledgerVars, jobVars>>

-----------------------------------------------------------------------------
(* Tenants, client credentials, URLs *)

Tenants == {"t1", "t2"}

\* A client_id no WhatsApp Customer owns.
UnknownClient == "nobody"

ClientIds == Tenants \cup {UnknownClient}

\* URLs are sequences of segments; startswith is the prefix relation.
SiteUrl(t) == IF t = "t1" THEN <<1>> ELSE <<2>>

RedirectUris == { <<1, 9>>, <<2, 9>>, <<3>> }

IsPrefix(p, s) == Len(p) <= Len(s) /\ SubSeq(s, 1, Len(p)) = p

-----------------------------------------------------------------------------
(* Bounds of the model *)

MaxCodes == 2
MaxTokReqs == 2
MaxTicks == 1
MaxLedReqs == 2
MaxSessions == 1

-----------------------------------------------------------------------------
(* Program constants *)

DEFAULT_OAUTH_TOKEN_EXPIRY == 3600
DEFAULT_OAUTH_REFRESH_EXPIRY == 2592000
CODE_TTL == 600

-----------------------------------------------------------------------------
(* Tokens: jwt.encode / jwt.decode with HS256 *)

\* A token is its payload plus whether it carries a signature made with the
\* settings secret.  Only _generate_tokens signs.
Jwt(cid, type, iat, exp, sig) ==
    [customer_id |-> cid, type |-> type, iat |-> iat, exp |-> exp, sig |-> sig]

\* Tokens a caller can fabricate without the secret.
ForgedTokens ==
    { Jwt("t1", ty, 0, 10 * DEFAULT_OAUTH_REFRESH_EXPIRY, FALSE) :
        ty \in {"access", "refresh"} }

NoToken == [customer_id |-> "", type |-> "", iat |-> 0, exp |-> 0, sig |-> FALSE]

\* jwt.decode(token, secret, algorithms=["HS256"]): the signature is verified
\* first, then exp against the clock.
jwt_decode(tok, t) ==
    IF ~tok.sig THEN "InvalidTokenError"
    ELSE IF tok.exp <= t THEN "ExpiredSignatureError"
    ELSE "ok"

AccessExpiry(s) ==
    IF s.oauth_token_expiry_seconds # 0 THEN s.oauth_token_expiry_seconds
    ELSE DEFAULT_OAUTH_TOKEN_EXPIRY

RefreshExpiry(s) ==
    IF s.oauth_refresh_expiry_seconds # 0 THEN s.oauth_refresh_expiry_seconds
    ELSE DEFAULT_OAUTH_REFRESH_EXPIRY

\* A pair whose refresh token lives no longer than its access token.
generate_tokens_same_expiry(cid, s, t) ==
    [access_token  |-> Jwt(cid, "access", t, t + AccessExpiry(s), TRUE),
     refresh_token |-> Jwt(cid, "refresh", t, t + AccessExpiry(s), TRUE),
     token_type    |-> "Bearer",
     expires_in    |-> AccessExpiry(s)]

generate_tokens(cid, s, t) ==
    [access_token  |-> Jwt(cid, "access", t, t + AccessExpiry(s), TRUE),
     refresh_token |-> Jwt(cid, "refresh", t, t + RefreshExpiry(s), TRUE),
     token_type    |-> "Bearer",
     expires_in    |-> AccessExpiry(s)]

NoPair ==
    [access_token |-> NoToken, refresh_token |-> NoToken,
     token_type |-> "", expires_in |-> 0]

\* validate_token: the tenant the token authenticates, or "None".
validate_token_any_kind(tok, t, st) ==
    IF jwt_decode(tok, t) # "ok" THEN "None"
    ELSE IF st[tok.customer_id] = "Absent" THEN "None"
    ELSE tok.customer_id

validate_token(tok, t, st) ==
    IF jwt_decode(tok, t) # "ok" THEN "None"
    ELSE IF tok.type # "access" THEN "None"
    ELSE IF st[tok.customer_id] = "Absent" THEN "None"
    ELSE tok.customer_id

-----------------------------------------------------------------------------
(* Client validation *)

SecretOf(t) == IF t = "t1" THEN "s1" ELSE "s2"

Secrets == {"", "s1", "s2"}

\* A lookup by client id alone, whatever the customer's status.
validate_client_any_status(client_id, st) ==
    IF client_id \in Tenants /\ st[client_id] # "Absent" THEN client_id
    ELSE "None"

\* _validate_client: the Active customer owning client_id, or "None".
validate_client(client_id, st) ==
    IF client_id \in Tenants /\ st[client_id] = "Active" THEN client_id
    ELSE "None"

\* The credential check with the test of customer.status left out.
validate_client_credentials_any_status(client_id, client_secret, st) ==
    IF client_id = "" \/ client_secret = "" THEN "None"
    ELSE IF client_id \notin Tenants \/ st[client_id] = "Absent"
        THEN "DoesNotExistError"
    ELSE IF SecretOf(client_id) # client_secret THEN "None"
    ELSE client_id

\* _validate_client_credentials: the customer, "None", or the exception
\* frappe.get_doc raises when no customer has that client id.
validate_client_credentials(client_id, client_secret, st) ==
    IF client_id = "" \/ client_secret = "" THEN "None"
    ELSE IF client_id \notin Tenants \/ st[client_id] = "Absent"
        THEN "DoesNotExistError"
    ELSE IF SecretOf(client_id) # client_secret THEN "None"
    ELSE IF st[client_id] # "Active" THEN "None"
    ELSE client_id

\* The prefix test alone, without the test for an empty site URL.
validate_redirect_uri_any_site(customer, redirect_uri) ==
    IsPrefix(frappe_site_url[customer], redirect_uri)

\* _validate_redirect_uri
validate_redirect_uri(customer, redirect_uri) ==
    IF frappe_site_url[customer] = <<>> THEN FALSE
    ELSE IsPrefix(frappe_site_url[customer], redirect_uri)

-----------------------------------------------------------------------------
(* Token Store: frappe.cache() entries with expires_in_sec *)

NoCode == 0
Codes == 1..MaxCodes

NoEntry == [customer_id |-> "", redirect_uri |-> <<>>, created_at |-> 0,
            expires |-> 0]

\* frappe.cache().get_value("oauth_code:<code>")
CacheGet(cache, code, t) ==
    IF code \in DOMAIN cache /\ cache[code].expires > t THEN cache[code]
    ELSE NoEntry

\* frappe.cache().delete_value("oauth_code:<code>")
CacheDeleteNoop(cache, code) == cache

CacheDelete(cache, code) ==
    [c \in DOMAIN cache \ {code} |-> cache[c]]

\* frappe.cache().set_value(key, payload, expires_in_sec=ttl)
CacheSet(cache, code, payload) ==
    [c \in DOMAIN cache \cup {code} |->
        IF c = code THEN payload ELSE cache[c]]

-----------------------------------------------------------------------------
(* Responses of the OAuth endpoints (history) *)

\* What the most recent call answered: the endpoint, the code and the token
\* it was given, the OAuth error code ("" on success, "throw" for a raised
\* exception), the error description and the tenant the answer is about
\* ("None" when there is none).
Response(op, code, tok, error, desc, customer) ==
    [op |-> op, code |-> code, tok |-> tok, error |-> error,
     error_description |-> desc, customer |-> customer]

NoResponse == Response("", NoCode, NoToken, "", "", "None")

ERR_OAUTH_FAILED == "Authentication failed. Please try again."
ERR_INVALID_TOKEN == "Invalid or expired token."
ERR_CUSTOMER_NOT_FOUND == "Customer account not found."

-----------------------------------------------------------------------------
(* authorize() *)

ResponseTypes == {"", "code", "token"}

authorize(client_id, redirect_uri, response_type) ==
    LET customer == validate_client(client_id, status)
        fail(msg) ==
            /\ last' = Response("authorize", NoCode, NoToken, "throw", msg, "None")
            /\ UNCHANGED <<oauthCodes, nextCode>>
    IN
    /\ IF client_id = "" \/ redirect_uri = <<>> \/ response_type = ""
         THEN fail("Missing required OAuth parameters")
       ELSE IF response_type # "code"
         THEN fail("Invalid response_type. Must be 'code'")
       ELSE IF customer = "None"
         THEN fail(ERR_CUSTOMER_NOT_FOUND)
       ELSE IF ~validate_redirect_uri(customer, redirect_uri)
         THEN /\ last' = Response("authorize", NoCode, NoToken, "throw",
                                  "Invalid redirect_uri", customer)
              /\ UNCHANGED <<oauthCodes, nextCode>>
       ELSE
         /\ nextCode < MaxCodes
         /\ nextCode' = nextCode + 1
         /\ oauthCodes' = CacheSet(oauthCodes, nextCode + 1,
                [customer_id |-> customer, redirect_uri |-> redirect_uri,
                 created_at |-> now, expires |-> now + CODE_TTL])
         /\ last' = Response("authorize", nextCode + 1, NoToken, "",
                             "redirect", customer)
    /\ UNCHANGED <<now, status, embedded_signup_completed,
                   tokReqs, nextReq, minted, redeemed, grants,
                   ticks, settings, frappe_site_url>>
    /\ UNCHANGED <<ledgerVars, jobVars>>

-----------------------------------------------------------------------------
(* token() *)

\* The refresh-token checks with the customer_id comparison left out.
refresh_token_check_any_tenant(customer, refresh_token, t) ==
    IF jwt_decode(refresh_token, t) = "ExpiredSignatureError"
        THEN "Refresh token expired"
    ELSE IF jwt_decode(refresh_token, t) = "InvalidTokenError"
        THEN ERR_INVALID_TOKEN
    ELSE IF refresh_token.type # "refresh" THEN ERR_INVALID_TOKEN
    ELSE "ok"

\* _handle_refresh_token_grant: the error description, or "ok".
refresh_token_check(customer, refresh_token, t) ==
    IF jwt_decode(refresh_token, t) = "ExpiredSignatureError"
        THEN "Refresh token expired"
    ELSE IF jwt_decode(refresh_token, t) = "InvalidTokenError"
        THEN ERR_INVALID_TOKEN
    ELSE IF refresh_token.customer_id # customer THEN ERR_INVALID_TOKEN
    ELSE IF refresh_token.type # "refresh" THEN ERR_INVALID_TOKEN
    ELSE "ok"

\* The checks on the cached code with the customer_id comparison left out.
authorization_code_check_any_tenant(customer, code, redirect_uri, cache, t) ==
    LET code_data == CacheGet(cache, code, t) IN
    IF code = NoCode THEN <<"invalid_request", "Missing code">>
    ELSE IF code_data = NoEntry
        THEN <<"invalid_grant", "Invalid or expired code">>
    ELSE IF code_data.redirect_uri # redirect_uri
        THEN <<"invalid_grant", "redirect_uri mismatch">>
    ELSE <<"", "ok">>

\* The part of _handle_authorization_code_grant up to and including the
\* checks on the cached code: the error and its description, or "ok".
authorization_code_check(customer, code, redirect_uri, cache, t) ==
    LET code_data == CacheGet(cache, code, t) IN
    IF code = NoCode THEN <<"invalid_request", "Missing code">>
    ELSE IF code_data = NoEntry
        THEN <<"invalid_grant", "Invalid or expired code">>
    ELSE IF code_data.customer_id # customer
        THEN <<"invalid_grant", "Code not issued to this client">>
    ELSE IF code_data.redirect_uri # redirect_uri
        THEN <<"invalid_grant", "redirect_uri mismatch">>
    ELSE <<"", "ok">>

\* token() with the cached code deleted as soon as it has been looked up,
\* before the checks on it.
token_delete_on_lookup(grant_type, client_id, client_secret, code, redirect_uri, refresh_token) ==
    LET customer == validate_client_credentials(client_id, client_secret, status)
        chk == authorization_code_check(customer, code, redirect_uri,
                                        oauthCodes, now)
    IN
    /\ customer \in Tenants
    /\ grant_type = "authorization_code"
    /\ chk[2] # "ok"
    /\ oauthCodes' = CacheDelete(oauthCodes, code)
    /\ last' = Response("token", code, refresh_token, chk[1], chk[2], customer)
    /\ UNCHANGED <<now, status, embedded_signup_completed, minted,
                   nextCode, tokReqs, nextReq, redeemed, grants,
                   ticks, settings, frappe_site_url>>
    /\ UNCHANGED <<ledgerVars, jobVars>>

\* token(): everything up to the cache lookup of an authorization_code
\* grant; the refresh_token grant and every failure answer at once.
token(grant_type, client_id, client_secret, code, redirect_uri, refresh_token) ==
    LET customer == validate_client_credentials(client_id, client_secret, status)
        answer(error, desc, who) ==
            last' = Response("token", code, refresh_token, error, desc, who)
        idle == UNCHANGED <<tokReqs, nextReq, minted>>
    IN
    /\ IF customer = "DoesNotExistError"
         THEN answer("throw", "DoesNotExistError", "None") /\ idle
       ELSE IF customer = "None"
         THEN answer("invalid_client", ERR_OAUTH_FAILED, "None") /\ idle
       ELSE IF grant_type = "authorization_code"
         THEN LET chk == authorization_code_check(customer, code, redirect_uri,
                                                  oauthCodes, now) IN
              IF chk[2] # "ok"
                THEN answer(chk[1], chk[2], customer) /\ idle
              ELSE
                /\ nextReq < MaxTokReqs
                /\ nextReq' = nextReq + 1
                /\ tokReqs' = tokReqs \cup
                      {[rid |-> nextReq + 1, customer |-> customer,
                        code |-> code, redirect_uri |-> redirect_uri,
                        code_data |-> CacheGet(oauthCodes, code, now),
                        afterRedeem |-> code \in redeemed]}
                /\ UNCHANGED <<minted, last>>
       ELSE IF grant_type = "refresh_token"
         THEN IF refresh_token = NoToken
                THEN answer("invalid_request", "Missing refresh_token", customer)
                     /\ idle
              ELSE LET chk == refresh_token_check(customer, refresh_token, now)
                       pair == generate_tokens(customer, settings, now) IN
                   IF chk # "ok"
                     THEN answer("invalid_grant", chk, customer) /\ idle
                   ELSE
                     /\ minted' = minted \cup
                            {pair.access_token, pair.refresh_token}
                     /\ answer("", "", customer)
                     /\ UNCHANGED <<tokReqs, nextReq>>
       ELSE answer("unsupported_grant_type", "", customer) /\ idle
    /\ UNCHANGED <<now, status, embedded_signup_completed,
                   oauthCodes, nextCode, redeemed, grants,
                   ticks, settings, frappe_site_url>>
    /\ UNCHANGED <<ledgerVars, jobVars>>

\* History: the request that was granted a token pair, with the tenant it
\* authenticated as, the redirect_uri it supplied and the code_data it read.
Grant(r) ==
    [code |-> r.code, rid |-> r.rid, customer |-> r.customer,
     redirect_uri |-> r.redirect_uri, code_data |-> r.code_data]

\* The code authorize() stores for tenant t with a redirect_uri on its site.
CodeEntry(t, at) ==
    [customer_id |-> t, redirect_uri |-> Append(SiteUrl(t), 9),
     created_at |-> at, expires |-> at + CODE_TTL]

\* The rest of _handle_authorization_code_grant for request r: delete the
\* code, mint the pair, return it.
token_redeem(r) ==
    LET pair == generate_tokens(r.customer, settings, now) IN
    /\ r \in tokReqs
    /\ tokReqs' = tokReqs \ {r}
    /\ oauthCodes' = CacheDelete(oauthCodes, r.code)
    /\ minted' = minted \cup {pair.access_token, pair.refresh_token}
    /\ redeemed' = redeemed \cup {r.code}
    /\ grants' = grants \cup {Grant(r)}
    /\ last' = Response("token", r.code, NoToken, "", "", r.customer)
    /\ UNCHANGED <<now, status, embedded_signup_completed,
                   nextCode, nextReq, ticks, settings, frappe_site_url>>
    /\ UNCHANGED <<ledgerVars, jobVars>>

-----------------------------------------------------------------------------
(* refresh() and validate_token() as endpoints *)

\* A refresh() that leaves out the test of the token's type.
refresh_any_kind(client_id, client_secret, refresh_token) ==
    LET customer == validate_client_credentials(client_id, client_secret, status)
        answer(error, desc, who) ==
            last' = Response("refresh", NoCode, refresh_token, error, desc, who)
    IN
    /\ IF customer = "DoesNotExistError"
         THEN answer("throw", "DoesNotExistError", "None") /\ UNCHANGED minted
       ELSE IF customer = "None"
         THEN answer("invalid_client", ERR_OAUTH_FAILED, "None")
              /\ UNCHANGED minted
       ELSE LET chk == IF jwt_decode(refresh_token, now) = "ExpiredSignatureError"
                         THEN "Refresh token expired"
                       ELSE IF jwt_decode(refresh_token, now) = "InvalidTokenError"
                         THEN ERR_INVALID_TOKEN
                       ELSE IF refresh_token.customer_id # customer
                         THEN ERR_INVALID_TOKEN
                       ELSE "ok"
                pair == generate_tokens(customer, settings, now) IN
            IF chk # "ok"
              THEN answer("invalid_grant", chk, customer) /\ UNCHANGED minted
            ELSE
              /\ minted' = minted \cup {pair.access_token, pair.refresh_token}
              /\ answer("", "", customer)
    /\ UNCHANGED <<now, status, embedded_signup_completed,
                   oauthCodes, nextCode, tokReqs, nextReq,
                   redeemed, grants, ticks, settings, frappe_site_url>>
    /\ UNCHANGED <<ledgerVars, jobVars>>

\* refresh(): the client check, the token checks written out in the function
\* itself, then _generate_tokens.
refresh(client_id, client_secret, refresh_token) ==
    LET customer == validate_client_credentials(client_id, client_secret, status)
        answer(error, desc, who) ==
            last' = Response("refresh", NoCode, refresh_token, error, desc, who)
    IN
    /\ IF customer = "DoesNotExistError"
         THEN answer("throw", "DoesNotExistError", "None") /\ UNCHANGED minted
       ELSE IF customer = "None"
         THEN answer("invalid_client", ERR_OAUTH_FAILED, "None")
              /\ UNCHANGED minted
       ELSE LET decoded == jwt_decode(refresh_token, now)
                chk == IF decoded = "ExpiredSignatureError"
                         THEN "Refresh token expired"
                       ELSE IF decoded = "InvalidTokenError"
                         THEN ERR_INVALID_TOKEN
                       ELSE IF refresh_token.customer_id # customer
                         THEN ERR_INVALID_TOKEN
                       ELSE IF refresh_token.type # "refresh"
                         THEN ERR_INVALID_TOKEN
                       ELSE "ok"
                pair == generate_tokens(customer, settings, now) IN
            IF chk # "ok"
              THEN answer("invalid_grant", chk, customer) /\ UNCHANGED minted
            ELSE
              /\ minted' = minted \cup {pair.access_token, pair.refresh_token}
              /\ answer("", "", customer)
    /\ UNCHANGED <<now, status, embedded_signup_completed,
                   oauthCodes, nextCode, tokReqs, nextReq,
                   redeemed, grants, ticks, settings, frappe_site_url>>
    /\ UNCHANGED <<ledgerVars, jobVars>>

validate_token_call(access_token) ==
    /\ last' = Response("validate_token", NoCode, access_token, "", "",
                        validate_token(access_token, now, status))
    /\ UNCHANGED <<now, status, embedded_signup_completed,
                   oauthCodes, nextCode, tokReqs, nextReq,
                   minted, redeemed, grants, ticks, settings, frappe_site_url>>
    /\ UNCHANGED <<ledgerVars, jobVars>>

-----------------------------------------------------------------------------
(* Environment of the OAuth endpoints: the clock and the admin *)

TickSteps == {CODE_TTL, DEFAULT_OAUTH_TOKEN_EXPIRY, DEFAULT_OAUTH_REFRESH_EXPIRY}

Tick(d) ==
    /\ ticks < MaxTicks
    /\ ticks' = ticks + 1
    /\ now' = now + d
    /\ UNCHANGED <<status, embedded_signup_completed, oauthCodes, nextCode, tokReqs, nextReq, minted,
                   redeemed, grants, last, settings, frappe_site_url>>
    /\ UNCHANGED <<ledgerVars, jobVars>>

\* customers.suspend / customers.activate (System Manager only)
suspend(t) ==
    /\ status[t] # "Absent"
    /\ status' = [status EXCEPT ![t] = "Suspended"]
    /\ UNCHANGED <<now, embedded_signup_completed, oauthCodes, nextCode, tokReqs,
                   nextReq, minted,
                   redeemed, grants, last, ticks, settings, frappe_site_url>>
    /\ UNCHANGED <<ledgerVars, jobVars>>

activate(t) ==
    /\ status[t] # "Absent"
    /\ status' = [status EXCEPT ![t] = "Active"]
    /\ UNCHANGED <<now, embedded_signup_completed, oauthCodes, nextCode, tokReqs,
                   nextReq, minted,
                   redeemed, grants, last, ticks, settings, frappe_site_url>>
    /\ UNCHANGED <<ledgerVars, jobVars>>

PresentableTokens == minted \cup ForgedTokens

NoReply == [op |-> "", customer |-> "None", result |-> ""]

IdleJob == [pc |-> "idle", month |-> 0, todo |-> <<>>]

\* No summaries, no invoices, no job running.
InitJobVars ==
    /\ monthly = {}
    /\ nextSummary = 0
    /\ invoices = {}
    /\ aggJob = IdleJob
    /\ invJob = IdleJob
    /\ aggRuns = 0
    /\ invRuns = <<>>
    /\ dayTicks = 0
    /\ outbox = {}
    /\ jobLog = {}
    /\ aggHist = <<>>
    /\ aggOverlap = IdleJob

NoSettings == [oauth_token_expiry_seconds |-> 0,
               oauth_refresh_expiry_seconds |-> 0]

-----------------------------------------------------------------------------
(* The authorization-code flow: authorize, token(authorization_code) under  *)
(* concurrent requests, the clock.  Both tenants are Active.                *)

\* Nothing has happened yet: no code, no token, empty ledger.
\* Nothing issued, recorded or running yet; the customers are left open.
InitBlank ==
    /\ now = 0
    /\ ticks = 0
    /\ oauthCodes = <<>>
    /\ nextCode = 0
    /\ tokReqs = {}
    /\ nextReq = 0
    /\ minted = {}
    /\ redeemed = {}
    /\ grants = {}
    /\ last = NoResponse
    /\ settings = NoSettings
    /\ today = 0
    /\ daily = {}
    /\ nextRow = 0
    /\ sessions = <<>>
    /\ nextSession = 0
    /\ ledReqs = {}
    /\ nextLedReq = 0
    /\ asked = <<>>
    /\ reply = NoReply
    /\ InitJobVars

InitFresh ==
    /\ InitBlank
    /\ status = [t \in Tenants |-> "Active"]
    /\ embedded_signup_completed = [t \in Tenants |-> TRUE]

InitCode ==
    /\ InitFresh
    /\ frappe_site_url = [t \in Tenants |-> SiteUrl(t)]

NextCode ==
    \/ \E c \in ClientIds \cup {""}, u \in RedirectUris, rt \in ResponseTypes :
         authorize(c, u, rt)
    \/ \E g \in {"authorization_code", "password"}, c \in ClientIds \cup {""},
          s \in Secrets, k \in {NoCode} \cup Codes, u \in RedirectUris :
         token(g, c, s, k, u, NoToken)
    \/ \E r \in tokReqs : token_redeem(r)
    \/ \E d \in TickSteps : Tick(d)

SpecCode == InitCode /\ [][NextCode]_vars

-----------------------------------------------------------------------------
(* Token validation and refresh, starting after each tenant has obtained a  *)
(* token pair at time 0 through the authorization-code flow.                *)

InitTokens ==
    /\ now = 0
    /\ ticks = 0
    /\ status = [t \in Tenants |-> "Active"]
    /\ embedded_signup_completed = [t \in Tenants |-> TRUE]
    /\ oauthCodes = <<>>
    /\ nextCode = 2
    /\ tokReqs = {}
    /\ nextReq = 2
    /\ minted = UNION { {generate_tokens(t, NoSettings, 0).access_token,
                         generate_tokens(t, NoSettings, 0).refresh_token} :
                        t \in Tenants }
    /\ redeemed = {1, 2}
    /\ grants = {Grant([code |-> 1, rid |-> 1, customer |-> "t1",
                        redirect_uri |-> Append(SiteUrl("t1"), 9),
                        code_data |-> CodeEntry("t1", 0)]),
                 Grant([code |-> 2, rid |-> 2, customer |-> "t2",
                        redirect_uri |-> Append(SiteUrl("t2"), 9),
                        code_data |-> CodeEntry("t2", 0)])}
    /\ last = NoResponse
    /\ settings = NoSettings
    /\ frappe_site_url = [t \in Tenants |-> SiteUrl(t)]
    /\ today = 0
    /\ daily = {}
    /\ nextRow = 0
    /\ sessions = <<>>
    /\ nextSession = 0
    /\ ledReqs = {}
    /\ nextLedReq = 0
    /\ asked = <<>>
    /\ reply = NoReply
    /\ InitJobVars

NextTokens ==
    \/ \E c \in ClientIds \cup {""}, s \in Secrets,
          tok \in PresentableTokens \cup {NoToken} :
         token("refresh_token", c, s, NoCode, <<>>, tok)
    \/ \E c \in ClientIds \cup {""}, s \in Secrets, tok \in PresentableTokens :
         refresh(c, s, tok)
    \/ \E tok \in PresentableTokens : validate_token_call(tok)
    \/ \E d \in TickSteps : Tick(d)
    \/ \E t \in Tenants : suspend(t)
    \/ \E t \in Tenants : activate(t)

SpecTokens == InitTokens /\ [][NextTokens]_vars

-----------------------------------------------------------------------------
(* Subscription plans and the cost calculator *)

\* WhatsApp Customer.subscription_plan ("" when the tenant has none).
SubscriptionPlan(t) == IF t = "t1" THEN "P30" ELSE ""

\* Subscription Plan.call_markup_percentage
CallMarkupPercentage(plan) == 30

\* round(x, 4) of the float x whose decimal value is n / d units of 0.0001:
\* the nearest integer; when n / d lies exactly half way between two
\* integers the float lies just above or just below it, and either
\* neighbour can result.
NearestIntegers(n, d) ==
    LET q == n \div d
        r == n % d
    IN IF 2 * r < d THEN {q}
       ELSE IF 2 * r > d THEN {q + 1}
       ELSE {q, q + 1}

\* Markup used when the tenant has no plan: 0.35, in percent.
DefaultMarkupPercentage == 35

\* base_rate_per_minute = 0.03 is 5 units of 0.0001 per second.
BaseRatePerSecond == 5

\* The arithmetic of _calculate_call_cost with the default markup applied
\* whatever the plan says.
call_cost_default_markup(duration_seconds, markup_percentage) ==
    LET base == duration_seconds * BaseRatePerSecond
    IN { [base_cost |-> base, markup |-> m, total_cost |-> t] :
           m \in NearestIntegers(base * DefaultMarkupPercentage, 100),
           t \in NearestIntegers(base * (100 + DefaultMarkupPercentage), 100) }

\* The arithmetic of _calculate_call_cost for a markup given in percent: the
\* values it can return, each rounded to 4 decimal places.
call_cost(duration_seconds, markup_percentage) ==
    LET base == duration_seconds * BaseRatePerSecond
    IN { [base_cost |-> base, markup |-> m, total_cost |-> t] :
           m \in NearestIntegers(base * markup_percentage, 100),
           t \in NearestIntegers(base * (100 + markup_percentage), 100) }

\* _calculate_call_cost: the plan's markup, or the default without a plan.
calculate_call_cost(duration_seconds, customer) ==
    LET plan == SubscriptionPlan(customer)
    IN call_cost(duration_seconds,
                 IF plan # "" THEN CallMarkupPercentage(plan)
                 ELSE DefaultMarkupPercentage)

-----------------------------------------------------------------------------
(* Table Daily Usage Metrics *)

\* DailyUsageMetrics.validate: negative counters are set to 0.
daily_validate(doc) ==
    [doc EXCEPT
       !.total_calls = IF @ < 0 THEN 0 ELSE @,
       !.total_messages = IF @ < 0 THEN 0 ELSE @,
       !.total_call_minutes = IF @ < 0 THEN 0 ELSE @]

\* DailyUsageMetrics.before_save
daily_before_save(doc) ==
    [doc EXCEPT !.total_revenue =
        doc.total_call_cost + doc.total_message_cost + doc.total_markup]

\* frappe.get_doc({...}): a document; fields the caller leaves out are 0.
DailyDoc(name, customer, date, n, mins, msgs, ccost, mcost, markup, rev) ==
    [name |-> name, customer |-> customer, date |-> date,
     total_calls |-> n, total_call_minutes |-> mins,
     total_messages |-> msgs, total_call_cost |-> ccost,
     total_message_cost |-> mcost, total_markup |-> markup,
     total_revenue |-> rev]

\* Rows of one (customer, date).
RowsOf(rows, customer, date) ==
    {x \in rows : x.customer = customer /\ x.date = date}

\* frappe.db.get_value("Daily Usage Metrics", {customer, date}, "name"):
\* the names it can return (0 stands for None).
ExistingNames(rows, customer, date) ==
    IF RowsOf(rows, customer, date) = {} THEN {0}
    ELSE {x.name : x \in RowsOf(rows, customer, date)}

\* An INSERT that is never refused.
InsertNeverFails(rows, doc) == FALSE

\* The Daily Usage Metrics table is keyed by (customer, date): the INSERT of
\* a second row of a key raises DuplicateEntryError and leaves the table as
\* it was.
InsertFails(rows, doc) == RowsOf(rows, doc.customer, doc.date) # {}

\* Document.insert: validate, before_save, then the INSERT.
daily_insert(rows, doc) == rows \cup {daily_before_save(daily_validate(doc))}

\* A SET clause that also books a cost for the message.
set_message_metric_with_cost(x) ==
    [x EXCEPT !.total_messages = @ + 1,
              !.total_message_cost = @ + 50,
              !.total_revenue = @ + 50]

\* The SET clauses of the four UPDATE statements.
set_message_metric(x) ==
    [x EXCEPT !.total_messages = @ + 1]

set_call_metric(x, duration, cost) ==
    [x EXCEPT !.total_calls = @ + 1,
              !.total_call_minutes = @ + duration,
              !.total_call_cost = @ + cost.base_cost,
              !.total_markup = @ + cost.markup,
              !.total_revenue = @ + cost.total_cost]

set_report_call(x, count, duration, cost) ==
    [x EXCEPT !.total_calls = @ + count,
              !.total_call_minutes = @ + duration,
              !.total_call_cost = @ + cost]

set_report_message(x, count, cost) ==
    [x EXCEPT !.total_messages = @ + count,
              !.total_message_cost = @ + cost]

\* The documents the four insert branches build.
doc_message_metric(name, customer, date) ==
    DailyDoc(name, customer, date, 0, 0, 1, 0, 0, 0, 0)

doc_call_metric(name, customer, date, duration, cost) ==
    DailyDoc(name, customer, date, 1, duration, 0, cost.base_cost, 0,
             cost.markup, cost.total_cost)

doc_report_call(name, customer, date, count, duration, cost) ==
    DailyDoc(name, customer, date, count, duration, 0, cost, 0, 0, 0)

doc_report_message(name, customer, date, count, cost) ==
    DailyDoc(name, customer, date, 0, 0, count, 0, cost, 0, 0)

-----------------------------------------------------------------------------
(* Bearer authentication of the proxy endpoints *)

\* metrics._authenticate_request and customers._authenticate_request: the
\* tenant, or "AuthenticationError".  tok = NoToken: no Bearer header.
authenticate_request_metrics(tok, t, st) ==
    IF tok = NoToken THEN "AuthenticationError"
    ELSE IF validate_token(tok, t, st) = "None" THEN "AuthenticationError"
    ELSE validate_token(tok, t, st)

\* messages._authenticate_request and calls._authenticate_request: as above,
\* and the customer must be Active.
authenticate_request(tok, t, st) ==
    IF tok = NoToken THEN "AuthenticationError"
    ELSE IF validate_token(tok, t, st) = "None" THEN "AuthenticationError"
    ELSE IF st[validate_token(tok, t, st)] # "Active" THEN "AuthenticationError"
    ELSE validate_token(tok, t, st)

Reply(op, customer, result) ==
    [op |-> op, customer |-> customer, result |-> result]

AskedOf(a, key) == IF key \in DOMAIN a THEN a[key] ELSE 0

AskedAdd(a, key, n) ==
    [k \in DOMAIN a \cup {key} |-> AskedOf(a, k) + IF k = key THEN n ELSE 0]

\* A recording request that has passed its existence check.
LedReq(op, customer, existing, count, duration, cost, session) ==
    [rid |-> nextLedReq + 1, op |-> op, customer |-> customer,
     date |-> today, existing |-> existing, count |-> count,
     duration |-> duration, cost |-> cost, session |-> session,
     pc |-> "write", authStatus |-> status[customer]]

NoCost == [base_cost |-> 0, markup |-> 0, total_cost |-> 0]

Admit(req) ==
    /\ nextLedReq < MaxLedReqs
    /\ nextLedReq' = nextLedReq + 1
    /\ ledReqs' = ledReqs \cup {req}

-----------------------------------------------------------------------------
(* messages.send_template / send_text / send_media *)

MessageEndpoints == {"send_template", "send_text", "send_media"}

ProviderOutcomes == {"200", "400", "RequestException"}

\* A handler that validates the parameters only after the provider answered.
send_message_provider_first(endpoint, tok, params_ok, provider) ==
    LET who == authenticate_request(tok, now, status)
        answer(result) ==
            /\ reply' = Reply("send_message", who, result)
            /\ UNCHANGED <<ledReqs, nextLedReq, asked>>
    IN
    /\ IF who = "AuthenticationError" THEN answer("AuthenticationError")
       ELSE IF provider = "400" THEN answer("provider_error")
       ELSE IF provider = "RequestException" THEN answer("provider_error")
       ELSE IF ~params_ok THEN answer("ValidationError")
       ELSE \E existing \in ExistingNames(daily, who, today) :
              /\ Admit(LedReq("message", who, existing, 1, 0, NoCost, 0))
              /\ asked' = AskedAdd(asked, <<who, today>>, 1)
              /\ UNCHANGED reply
    /\ UNCHANGED <<today, daily, nextRow, sessions, nextSession>>
    /\ UNCHANGED <<authVars, oauthVars, jobVars>>

\* The handler up to the existence check of _record_message_metric.
send_message(endpoint, tok, params_ok, provider) ==
    LET who == authenticate_request(tok, now, status)
        answer(result) ==
            /\ reply' = Reply("send_message", who, result)
            /\ UNCHANGED <<ledReqs, nextLedReq, asked>>
    IN
    /\ IF who = "AuthenticationError" THEN answer("AuthenticationError")
       ELSE IF ~params_ok THEN answer("ValidationError")
       ELSE IF provider = "400" THEN answer("provider_error")
       ELSE IF provider = "RequestException" THEN answer("provider_error")
       ELSE \E existing \in ExistingNames(daily, who, today) :
              /\ Admit(LedReq("message", who, existing, 1, 0, NoCost, 0))
              /\ asked' = AskedAdd(asked, <<who, today>>, 1)
              /\ UNCHANGED reply
    /\ UNCHANGED <<today, daily, nextRow, sessions, nextSession>>
    /\ UNCHANGED <<authVars, oauthVars, jobVars>>

-----------------------------------------------------------------------------
(* metrics.report_usage *)

UsageTypes == {"call", "message", "sms"}

\* The handler up to the existence check.
report_usage(tok, usage_type, count, duration_minutes, cost) ==
    LET who == authenticate_request_metrics(tok, now, status)
        answer(result) ==
            /\ reply' = Reply("report_usage", who, result)
            /\ UNCHANGED <<ledReqs, nextLedReq, asked>>
    IN
    /\ IF who = "AuthenticationError" THEN answer("AuthenticationError")
       ELSE IF usage_type \notin {"call", "message"}
         THEN answer("ValidationError")
       ELSE \E existing \in ExistingNames(daily, who, today) :
              /\ Admit(LedReq(IF usage_type = "call" THEN "report_call"
                              ELSE "report_message",
                              who, existing, count, duration_minutes,
                              [NoCost EXCEPT !.total_cost = cost], 0))
              /\ asked' = IF usage_type = "message"
                            THEN AskedAdd(asked, <<who, today>>, count)
                          ELSE asked
              /\ UNCHANGED reply
    /\ UNCHANGED <<today, daily, nextRow, sessions, nextSession>>
    /\ UNCHANGED <<authVars, oauthVars, jobVars>>

-----------------------------------------------------------------------------
(* calls.initiate / calls.end / calls.status *)

NoSession == [customer_id |-> "", status |-> ""]

SessionGet(cache, id) ==
    IF id \in DOMAIN cache THEN cache[id] ELSE NoSession

initiate(tok, params_ok, restricted, janus_ok) ==
    LET who == authenticate_request(tok, now, status)
        answer(result) ==
            /\ reply' = Reply("initiate", who, result)
            /\ UNCHANGED <<sessions, nextSession>>
    IN
    /\ IF who = "AuthenticationError" THEN answer("AuthenticationError")
       ELSE IF ~params_ok THEN answer("ValidationError")
       ELSE IF restricted THEN answer("restricted")
       ELSE IF ~janus_ok THEN answer("janus_error")
       ELSE
         /\ nextSession < MaxSessions
         /\ nextSession' = nextSession + 1
         /\ sessions' = [i \in DOMAIN sessions \cup {nextSession + 1} |->
                IF i = nextSession + 1
                  THEN [customer_id |-> who, status |-> "initiating"]
                ELSE sessions[i]]
         /\ reply' = Reply("initiate", who, "ok")
    /\ UNCHANGED <<today, daily, nextRow, ledReqs, nextLedReq, asked>>
    /\ UNCHANGED <<authVars, oauthVars, jobVars>>

\* An end() that does not compare the session's customer with the caller.
end_any_owner(tok, call_session_id, duration_seconds) ==
    LET who == authenticate_request(tok, now, status)
        session_data == SessionGet(sessions, call_session_id)
        answer(result) ==
            /\ reply' = Reply("end", who, result)
            /\ UNCHANGED <<ledReqs, nextLedReq>>
    IN
    /\ IF who = "AuthenticationError" THEN answer("AuthenticationError")
       ELSE IF call_session_id = 0 THEN answer("ValidationError")
       ELSE IF session_data = NoSession THEN answer("not_found")
       ELSE \E existing \in ExistingNames(daily, who, today),
               cost \in calculate_call_cost(duration_seconds, who) :
              /\ Admit(LedReq("call_end", who, existing, 1, duration_seconds,
                              cost, call_session_id))
              /\ UNCHANGED reply
    /\ UNCHANGED <<today, daily, nextRow, sessions, nextSession,
                   asked>>
    /\ UNCHANGED <<authVars, oauthVars, jobVars>>

\* end(): up to the existence check of _record_call_metric.
end(tok, call_session_id, duration_seconds) ==
    LET who == authenticate_request(tok, now, status)
        session_data == SessionGet(sessions, call_session_id)
        answer(result) ==
            /\ reply' = Reply("end", who, result)
            /\ UNCHANGED <<ledReqs, nextLedReq>>
    IN
    /\ IF who = "AuthenticationError" THEN answer("AuthenticationError")
       ELSE IF call_session_id = 0 THEN answer("ValidationError")
       ELSE IF session_data = NoSession THEN answer("not_found")
       ELSE IF session_data.customer_id # who THEN answer("not_owner")
       ELSE \E existing \in ExistingNames(daily, who, today),
               cost \in calculate_call_cost(duration_seconds, who) :
              /\ Admit(LedReq("call_end", who, existing, 1, duration_seconds,
                              cost, call_session_id))
              /\ UNCHANGED reply
    /\ UNCHANGED <<today, daily, nextRow, sessions, nextSession,
                   asked>>
    /\ UNCHANGED <<authVars, oauthVars, jobVars>>

call_status(tok, call_session_id) ==
    LET who == authenticate_request(tok, now, status)
        session_data == SessionGet(sessions, call_session_id)
    IN
    /\ reply' =
         IF who = "AuthenticationError"
           THEN Reply("status", who, "AuthenticationError")
         ELSE IF call_session_id = 0 THEN Reply("status", who, "ValidationError")
         ELSE IF session_data = NoSession THEN Reply("status", who, "not_found")
         ELSE IF session_data.customer_id # who
           THEN Reply("status", who, "not_found")
         ELSE Reply("status", who, session_data.status)
    /\ UNCHANGED <<today, daily, nextRow, sessions, nextSession,
                   ledReqs, nextLedReq, asked>>
    /\ UNCHANGED <<authVars, oauthVars, jobVars>>

-----------------------------------------------------------------------------
(* The write of a recording request: UPDATE or insert, then commit *)

\* The SET clause of the UPDATE a recording request runs.
SetClause(x, r) ==
    IF r.op = "message" THEN set_message_metric(x)
    ELSE IF r.op = "call_end" THEN set_call_metric(x, r.duration, r.cost)
    ELSE IF r.op = "report_call"
      THEN set_report_call(x, r.count, r.duration, r.cost.total_cost)
    ELSE set_report_message(x, r.count, r.cost.total_cost)

\* An UPDATE whose WHERE clause names the date only.
UpdatedRowsOfDate(r) ==
    {IF x.date = r.date THEN SetClause(x, r) ELSE x : x \in daily}

\* UPDATE `tabDaily Usage Metrics` SET ... WHERE name = %s
UpdatedRows(r) ==
    {IF x.name = r.existing THEN SetClause(x, r) ELSE x : x \in daily}

NewDoc(r) ==
    IF r.op = "message"
      THEN doc_message_metric(nextRow + 1, r.customer, r.date)
    ELSE IF r.op = "call_end"
      THEN doc_call_metric(nextRow + 1, r.customer, r.date, r.duration, r.cost)
    ELSE IF r.op = "report_call"
      THEN doc_report_call(nextRow + 1, r.customer, r.date, r.count,
                           r.duration, r.cost.total_cost)
    ELSE doc_report_message(nextRow + 1, r.customer, r.date, r.count,
                            r.cost.total_cost)

ReplyOp(r) ==
    IF r.op = "message" THEN "send_message"
    ELSE IF r.op = "call_end" THEN "end"
    ELSE "report_usage"

\* After the commit a call end still has its session to delete.
AfterWrite(r) ==
    IF r.op = "call_end" THEN (ledReqs \ {r}) \cup {[r EXCEPT !.pc = "cleanup"]}
    ELSE ledReqs \ {r}

record_write(r) ==
    /\ r \in ledReqs
    /\ r.pc = "write"
    /\ IF r.existing # 0
         THEN /\ daily' = UpdatedRows(r)
              /\ ledReqs' = AfterWrite(r)
              /\ reply' = IF r.op = "call_end" THEN reply
                          ELSE Reply(ReplyOp(r), r.customer, "ok")
              /\ UNCHANGED nextRow
       ELSE IF InsertFails(daily, NewDoc(r))
         THEN /\ ledReqs' = ledReqs \ {r}
              /\ reply' = Reply(ReplyOp(r), r.customer, "DuplicateEntryError")
              /\ UNCHANGED <<daily, nextRow>>
       ELSE /\ daily' = daily_insert(daily, NewDoc(r))
            /\ nextRow' = nextRow + 1
            /\ ledReqs' = AfterWrite(r)
            /\ reply' = IF r.op = "call_end" THEN reply
                        ELSE Reply(ReplyOp(r), r.customer, "ok")
    /\ UNCHANGED <<today, sessions, nextSession, nextLedReq, asked>>
    /\ UNCHANGED <<authVars, oauthVars, jobVars>>

\* end(): frappe.cache().delete_value("call_session:<id>") and the answer.
end_cleanup(r) ==
    /\ r \in ledReqs
    /\ r.pc = "cleanup"
    /\ sessions' = [i \in DOMAIN sessions \ {r.session} |-> sessions[i]]
    /\ ledReqs' = ledReqs \ {r}
    /\ reply' = Reply("end", r.customer, "ok")
    /\ UNCHANGED <<today, daily, nextRow, nextSession, nextLedReq,
                   asked>>
    /\ UNCHANGED <<authVars, oauthVars, jobVars>>

\* customers.suspend / customers.activate while the proxy is serving.
ledger_suspend(t) ==
    /\ status[t] # "Absent"
    /\ status' = [status EXCEPT ![t] = "Suspended"]
    /\ UNCHANGED <<now, minted, embedded_signup_completed, oauthVars, ledgerVars,
                   jobVars>>

ledger_activate(t) ==
    /\ status[t] # "Absent"
    /\ status' = [status EXCEPT ![t] = "Active"]
    /\ UNCHANGED <<now, minted, embedded_signup_completed, oauthVars, ledgerVars,
                   jobVars>>

-----------------------------------------------------------------------------
(* The proxy endpoints writing the ledger concurrently.  It starts after    *)
(* t1 obtained token pairs at times 0 and 3600 and t2 one at 3600, the      *)
(* clock at 3600, and t1 has initiated one call; the naming rule of Daily   *)
(* Usage Metrics is either.                                                 *)

PairTokens(t, at) ==
    {generate_tokens(t, NoSettings, at).access_token,
     generate_tokens(t, NoSettings, at).refresh_token}

BearerTokens == {tok \in minted : tok.type = "access" \/ tok.customer_id = "t1"}
                   \cup {NoToken}

ReportCounts == {1}
ReportDurations == {60}
ReportCosts == {50}
CallDurations == {120}

\* The proxy is serving: tokens issued, no request in flight.
InitServing ==
    /\ now = DEFAULT_OAUTH_TOKEN_EXPIRY
    /\ ticks = 0
    /\ status = [t \in Tenants |-> "Active"]
    /\ embedded_signup_completed = [t \in Tenants |-> TRUE]
    /\ oauthCodes = <<>>
    /\ nextCode = 0
    /\ tokReqs = {}
    /\ nextReq = 0
    /\ minted = PairTokens("t1", 0)
                  \cup PairTokens("t1", DEFAULT_OAUTH_TOKEN_EXPIRY)
                  \cup PairTokens("t2", DEFAULT_OAUTH_TOKEN_EXPIRY)
    /\ redeemed = {}
    /\ grants = {}
    /\ last = NoResponse
    /\ settings = NoSettings
    /\ frappe_site_url = [t \in Tenants |-> SiteUrl(t)]
    /\ ledReqs = {}
    /\ nextLedReq = 0
    /\ asked = <<>>
    /\ reply = NoReply
    /\ InitJobVars

InitProxy ==
    /\ InitServing
    /\ today = 0
    /\ daily = {}
    /\ nextRow = 0

InitLedger ==
    /\ InitProxy
    /\ sessions = <<[customer_id |-> "t1", status |-> "initiating"]>>
    /\ nextSession = 1

NextLedger ==
    \/ \E e \in MessageEndpoints, tok \in BearerTokens, ok \in BOOLEAN,
          p \in ProviderOutcomes :
         send_message(e, tok, ok, p)
    \/ \E tok \in BearerTokens, u \in UsageTypes, n \in ReportCounts,
          d \in ReportDurations, c \in ReportCosts :
         report_usage(tok, u, n, d, c)
    \/ \E tok \in BearerTokens, id \in 0..MaxSessions, d \in CallDurations :
         end(tok, id, d)
    \/ \E r \in ledReqs : record_write(r)
    \/ \E r \in ledReqs : end_cleanup(r)

SpecLedger == InitLedger /\ [][NextLedger]_vars

-----------------------------------------------------------------------------
(* The proxy endpoints while the admin suspends and reactivates tenants.    *)

InitSuspend ==
    /\ InitProxy
    /\ sessions = <<>>
    /\ nextSession = 0

NextSuspend ==
    \/ \E e \in MessageEndpoints, tok \in BearerTokens, ok \in BOOLEAN,
          p \in ProviderOutcomes :
         send_message(e, tok, ok, p)
    \/ \E tok \in BearerTokens, u \in UsageTypes, n \in ReportCounts,
          d \in ReportDurations, c \in ReportCosts :
         report_usage(tok, u, n, d, c)
    \/ \E r \in ledReqs : record_write(r)
    \/ \E t \in Tenants : ledger_suspend(t)
    \/ \E t \in Tenants : ledger_activate(t)

SpecSuspend == InitSuspend /\ [][NextSuspend]_vars

-----------------------------------------------------------------------------
(* Call sessions: initiate, status and end.                                 *)

InitCalls ==
    /\ InitProxy
    /\ sessions = <<>>
    /\ nextSession = 0

NextCalls ==
    \/ \E tok \in BearerTokens, ok \in BOOLEAN, restricted \in BOOLEAN,
          janus \in BOOLEAN :
         initiate(tok, ok, restricted, janus)
    \/ \E tok \in BearerTokens, id \in 0..MaxSessions, d \in CallDurations :
         end(tok, id, d)
    \/ \E tok \in BearerTokens, id \in 0..MaxSessions : call_status(tok, id)
    \/ \E r \in ledReqs : record_write(r)
    \/ \E r \in ledReqs : end_cleanup(r)

SpecCalls == InitCalls /\ [][NextCalls]_vars

-----------------------------------------------------------------------------
(* Claims about the authorization-code flow (SpecCode) *)

\* C1: once a token() call has redeemed a code, every later token() call
\* presenting that code fails with invalid_grant and mints nothing: in every
\* state the checks of a new call reject each redeemed code for every client
\* and redirect_uri, and no call that began after the redemption is on its
\* way to minting.
C1_RedeemedCodeRejected ==
    /\ \A k \in redeemed : \A c \in Tenants : \A u \in RedirectUris :
          authorization_code_check(c, k, u, oauthCodes, now)[1] = "invalid_grant"
    /\ \A r \in tokReqs : ~r.afterRedeem
    /\ (last.op = "token" /\ last.code \in redeemed /\ last.customer # "None"
        /\ last.tok = NoToken /\ last.error # "")
           => last.error \in {"invalid_grant", "unsupported_grant_type"}

\* C1 witness: a code has been redeemed and a later token() call that
\* presented it was answered invalid_grant.
C1_Witness ==
    /\ last.op = "token"
    /\ last.code \in redeemed
    /\ last.error = "invalid_grant"
    /\ last.customer \in Tenants

\* C2: two concurrent token() calls for the same code never both return a
\* token pair: each code is the origin of at most one grant.
C2_AtMostOneGrantPerCode ==
    \A k \in Codes : Cardinality({g \in grants : g.code = k}) <= 1

-----------------------------------------------------------------------------
(* Claims about token kinds (SpecTokens) *)

\* C5: a signed token of kind "refresh" is never accepted by validate_token,
\* and a signed token of kind "access" is never accepted by the refresh_token
\* grant of token() nor by refresh(): an authenticated client gets
\* invalid_grant, and no call given an access token mints a pair.
C5_TokenKindSeparation ==
    /\ (last.op = "validate_token" /\ last.tok.sig /\ last.tok.type = "refresh")
          => last.customer = "None"
    /\ (last.op \in {"token", "refresh"} /\ last.tok.sig
        /\ last.tok.type = "access")
          => /\ last.error # ""
             /\ last.customer # "None" => last.error = "invalid_grant"
    /\ \A tok \in minted :
          /\ tok.type = "refresh" => validate_token(tok, now, status) = "None"
          /\ tok.type = "access" =>
                \A c \in Tenants : refresh_token_check(c, tok, now) # "ok"

\* C5 witness: validate_token was given a signed, unexpired refresh token
\* of an existing tenant and returned none.
C5_Witness ==
    /\ last.op = "validate_token"
    /\ last.tok \in minted
    /\ last.tok.type = "refresh"
    /\ jwt_decode(last.tok, now) = "ok"
    /\ last.customer = "None"

-----------------------------------------------------------------------------
(* tasks.py: the scheduled jobs.  Days are numbered from 0 and a month is  *)
(* 30 days, so month m covers the days 30m .. 30m + 29.                    *)

MaxAggRuns == 2
MaxInvRuns == 2
MaxDayTicks == 2
MaxJobReports == 1

USAGE_METRICS_RETENTION_DAYS == 90

\* today.strftime("%Y-%m")
MonthOf(d) == d \div 30

month_start(m) == m * 30

month_end(m) == m * 30 + 29

\* The month before today's; -1 is the December of the year before.
prev_month(d) == MonthOf(d) - 1

\* Subscription Plan.base_monthly_fee, in units of 0.0001.
BaseMonthlyFee(plan) == 290000

\* WhatsApp Customer.company_email
CompanyEmail(t) == IF t = "t1" THEN "billing@t1" ELSE ""

\* All the orders in which get_all may list the members of S.
Orderings(S) ==
    {q \in [1..Cardinality(S) -> S] :
        \A i \in DOMAIN q : \A j \in DOMAIN q : i # j => q[i] # q[j]}

RECURSIVE SumOf(_, _)
SumOf(rows, field) ==
    IF rows = {} THEN 0
    ELSE LET x == CHOOSE y \in rows : TRUE
         IN x[field] + SumOf(rows \ {x}, field)

RowsInMonth(rows, customer, m) ==
    {x \in rows : /\ x.customer = customer
                  /\ x.date >= month_start(m)
                  /\ x.date <= month_end(m)}

\* SELECT SUM(...) FROM `tabDaily Usage Metrics` WHERE customer = %s AND
\* date BETWEEN %s AND %s; the SUM of no row is NULL and is read as 0.
aggregate_sql(rows, customer, m) ==
    LET R == RowsInMonth(rows, customer, m)
    IN [total_calls        |-> SumOf(R, "total_calls"),
        total_call_minutes |-> SumOf(R, "total_call_minutes"),
        total_messages     |-> SumOf(R, "total_messages"),
        base_call_cost     |-> SumOf(R, "total_call_cost"),
        base_message_cost  |-> SumOf(R, "total_message_cost"),
        total_markup       |-> SumOf(R, "total_markup"),
        total_revenue      |-> SumOf(R, "total_revenue")]

SummariesOf(rows, customer, m) ==
    {x \in rows : x.customer = customer /\ x.month = m}

\* A lookup that never finds the row.
NoExistingSummary(rows, customer, m) == {0}

\* frappe.db.get_value("Monthly Usage Summary", {customer, month}, "name"):
\* 0 stands for None; of several rows any one may be returned.
ExistingSummaries(rows, customer, m) ==
    IF SummariesOf(rows, customer, m) = {} THEN {0}
    ELSE {x.name : x \in SummariesOf(rows, customer, m)}

customer_base_fee(customer) ==
    IF SubscriptionPlan(customer) # ""
      THEN BaseMonthlyFee(SubscriptionPlan(customer))
    ELSE 0

\* Values written without the plan's fee.
summary_values_without_fee(aggregated, base_fee) ==
    [total_calls        |-> aggregated.total_calls,
     total_call_minutes |-> aggregated.total_call_minutes,
     total_messages     |-> aggregated.total_messages,
     base_fee           |-> 0,
     usage_charges      |-> aggregated.total_revenue,
     total_amount       |-> aggregated.total_revenue]

\* The six values _aggregate_customer_metrics writes.
summary_values(aggregated, base_fee) ==
    [total_calls        |-> aggregated.total_calls,
     total_call_minutes |-> aggregated.total_call_minutes,
     total_messages     |-> aggregated.total_messages,
     base_fee           |-> base_fee,
     usage_charges      |-> aggregated.total_revenue,
     total_amount       |-> base_fee + aggregated.total_revenue]

\* A write that starts the row over, invoice_generated included.
summary_overwrite(rows, name, v) ==
    {IF x.name = name
       THEN [x EXCEPT !.total_calls = v.total_calls,
                      !.total_call_minutes = v.total_call_minutes,
                      !.total_messages = v.total_messages,
                      !.base_fee = v.base_fee,
                      !.usage_charges = v.usage_charges,
                      !.total_amount = v.total_amount,
                      !.invoice_generated = FALSE]
     ELSE x : x \in rows}

\* frappe.db.set_value("Monthly Usage Summary", existing, {...}): the six
\* columns are written, no controller hook runs, invoice_generated stays.
summary_set_value(rows, name, v) ==
    {IF x.name = name
       THEN [x EXCEPT !.total_calls = v.total_calls,
                      !.total_call_minutes = v.total_call_minutes,
                      !.total_messages = v.total_messages,
                      !.base_fee = v.base_fee,
                      !.usage_charges = v.usage_charges,
                      !.total_amount = v.total_amount]
     ELSE x : x \in rows}

\* MonthlyUsageSummary.before_save
summary_before_save(doc) ==
    [doc EXCEPT !.total_amount = doc.base_fee + doc.usage_charges]

\* frappe.get_doc({...}).insert(): the new row, invoice_generated = 0.
summary_insert(rows, name, customer, m, v) ==
    rows \cup {summary_before_save(
        [name |-> name, customer |-> customer, month |-> m,
         total_calls |-> v.total_calls,
         total_call_minutes |-> v.total_call_minutes,
         total_messages |-> v.total_messages,
         base_fee |-> v.base_fee,
         usage_charges |-> v.usage_charges,
         total_amount |-> v.total_amount,
         invoice_generated |-> FALSE])}

\* aggregate_usage_metrics up to the loop: the month and the Active
\* customers are read once, at the start of the run.
aggregate_usage_metrics ==
    /\ aggJob.pc = "idle"
    /\ aggRuns < MaxAggRuns
    /\ aggRuns' = aggRuns + 1
    /\ \E order \in Orderings({t \in Tenants : status[t] = "Active"}) :
         aggJob' = IF order = <<>> THEN IdleJob
                   ELSE [pc |-> "running", month |-> MonthOf(today),
                         todo |-> order]
    /\ UNCHANGED <<monthly, nextSummary, invoices, invJob, invRuns, dayTicks,
                   outbox, jobLog, aggHist,
                   aggOverlap>>
    /\ UNCHANGED <<authVars, oauthVars, ledgerVars>>

NoHist == [n |-> 0, read |-> {}, prevRead |-> {}, before |-> {},
           after |-> {}, prevAfter |-> {}]

HistOf(h, key) == IF key \in DOMAIN h THEN h[key] ELSE NoHist

\* What the run that just wrote the summary of `key` read and wrote.
HistAdd(h, key, read, before, after) ==
    [k \in DOMAIN h \cup {key} |->
        IF k = key
          THEN [n |-> HistOf(h, key).n + 1,
                read |-> read, prevRead |-> HistOf(h, key).read,
                before |-> before,
                after |-> after, prevAfter |-> HistOf(h, key).after]
        ELSE h[k]]

\* One turn of the loop: _aggregate_customer_metrics(customer_id, month).
aggregate_customer_metrics ==
    /\ aggJob.pc = "running"
    /\ status[Head(aggJob.todo)] # "Absent"
    /\ LET customer_id == Head(aggJob.todo)
           m == aggJob.month
           v == summary_values(aggregate_sql(daily, customer_id, m),
                               customer_base_fee(customer_id))
       IN \E existing \in ExistingSummaries(monthly, customer_id, m) :
            /\ monthly' = IF existing # 0
                            THEN summary_set_value(monthly, existing, v)
                          ELSE summary_insert(monthly, nextSummary + 1,
                                              customer_id, m, v)
            /\ nextSummary' = IF existing # 0 THEN nextSummary
                              ELSE nextSummary + 1
            /\ aggHist' = HistAdd(aggHist, <<customer_id, m>>,
                                  RowsInMonth(daily, customer_id, m),
                                  SummariesOf(monthly, customer_id, m),
                                  SummariesOf(monthly', customer_id, m))
    /\ aggJob' = IF Len(aggJob.todo) = 1 THEN IdleJob
                 ELSE [aggJob EXCEPT !.todo = Tail(@)]
    /\ UNCHANGED <<invoices, invJob, aggRuns, invRuns, dayTicks, outbox,
                   jobLog, aggOverlap>>
    /\ UNCHANGED <<authVars, oauthVars, ledgerVars>>

\* A turn of the loop that raises: frappe.get_doc("WhatsApp Customer",
\* customer_id) finds no row for a customer deleted since the run listed it.
\* Nothing is written for it; the exception leaves the loop and is logged by
\* the except clause of aggregate_usage_metrics, which ends the run.
aggregate_customer_failed ==
    /\ aggJob.pc = "running"
    /\ status[Head(aggJob.todo)] = "Absent"
    /\ jobLog' = jobLog \cup {"usage_aggregation"}
    /\ aggJob' = IdleJob
    /\ UNCHANGED <<monthly, nextSummary, invoices, invJob, aggRuns, invRuns,
                   dayTicks, outbox, aggHist,
                   aggOverlap>>
    /\ UNCHANGED <<authVars, oauthVars, ledgerVars>>

\* _cleanup_old_metrics: DELETE ... WHERE date < today - retention.  The
\* other two steps of cleanup_old_data touch tables that are not modelled.
cleanup_old_metrics(rows, day) ==
    {x \in rows : ~(x.date < day - USAGE_METRICS_RETENTION_DAYS)}

cleanup_old_data ==
    /\ daily' = cleanup_old_metrics(daily, today)
    /\ UNCHANGED <<today, nextRow, sessions, nextSession, ledReqs,
                   nextLedReq, asked, reply>>
    /\ UNCHANGED <<authVars, oauthVars, jobVars>>

\* generate_monthly_invoices up to the loop: the summaries of the previous
\* month that are not invoiced are read once, at the start of the run.
generate_monthly_invoices ==
    /\ invJob.pc = "idle"
    /\ Len(invRuns) < MaxInvRuns
    /\ \E order \in Orderings({x \in monthly :
                                  /\ x.month = prev_month(today)
                                  /\ ~x.invoice_generated}) :
         /\ invJob' = IF order = <<>> THEN IdleJob
                      ELSE [pc |-> "running", month |-> prev_month(today),
                            todo |-> order]
         /\ invRuns' = Append(invRuns, [month |-> prev_month(today),
                                        found |-> Len(order)])
    /\ UNCHANGED <<monthly, nextSummary, invoices, aggJob, aggRuns, dayTicks,
                   outbox, jobLog, aggHist,
                   aggOverlap>>
    /\ UNCHANGED <<authVars, oauthVars, ledgerVars>>

\* CustomerInvoice.before_save
invoice_before_save(doc) ==
    [doc EXCEPT !.total_amount =
                    doc.base_fee + doc.call_charges + doc.message_charges]

\* The document _generate_customer_invoice inserts.  from_summary is not a
\* field of the DocType: it records which summary the invoice was made for.
invoice_doc(name, summary, month_date) ==
    invoice_before_save(
        [name |-> name, customer |-> summary.customer,
         invoice_period_start |-> month_start(month_date),
         invoice_period_end |-> month_end(month_date),
         base_fee |-> summary.base_fee,
         call_charges |-> 0, message_charges |-> 0,
         total_calls |-> summary.total_calls,
         total_messages |-> summary.total_messages,
         total_amount |-> summary.total_amount,
         invoice_status |-> "Draft",
         from_summary |-> summary.name])

\* A marking that is left out.
mark_not_invoiced(rows, name) == rows

\* frappe.db.set_value("Monthly Usage Summary", name, "invoice_generated", 1)
mark_invoiced(rows, name) ==
    {IF x.name = name THEN [x EXCEPT !.invoice_generated = TRUE] ELSE x :
        x \in rows}

MailOutcomes(customer) ==
    IF CompanyEmail(customer) = "" THEN {"no_email"}
    ELSE {"sent", "error"}

\* A turn of the loop in which an undelivered notification ends the run.
generate_customer_invoice_mail_aborts ==
    /\ invJob.pc = "running"
    /\ LET summary == Head(invJob.todo)
           invoice == invoice_doc(Cardinality(invoices) + 1, summary,
                                  invJob.month)
       IN /\ invoices' = invoices \cup {invoice}
          /\ monthly' = mark_invoiced(monthly, summary.name)
          /\ \E mail \in MailOutcomes(summary.customer) :
               /\ outbox' = IF mail = "sent" THEN outbox \cup {invoice.name}
                            ELSE outbox
               /\ jobLog' = IF mail = "error"
                              THEN jobLog \cup {"invoice_email"}
                            ELSE jobLog
               /\ invJob' = IF Len(invJob.todo) = 1 \/ mail # "sent"
                              THEN IdleJob
                            ELSE [invJob EXCEPT !.todo = Tail(@)]
    /\ UNCHANGED <<nextSummary, aggJob, aggRuns, invRuns, dayTicks, aggHist,
                   aggOverlap>>
    /\ UNCHANGED <<authVars, oauthVars, ledgerVars>>

\* One turn of the loop: _generate_customer_invoice(summary, prev_month)
\* and _send_invoice_notification(invoice) after the commit.
generate_customer_invoice ==
    /\ invJob.pc = "running"
    /\ LET summary == Head(invJob.todo)
           invoice == invoice_doc(Cardinality(invoices) + 1, summary,
                                  invJob.month)
       IN /\ invoices' = invoices \cup {invoice}
          /\ monthly' = mark_invoiced(monthly, summary.name)
          /\ \E mail \in MailOutcomes(summary.customer) :
               /\ outbox' = IF mail = "sent" THEN outbox \cup {invoice.name}
                            ELSE outbox
               /\ jobLog' = IF mail = "error"
                              THEN jobLog \cup {"invoice_email"}
                            ELSE jobLog
    /\ invJob' = IF Len(invJob.todo) = 1 THEN IdleJob
                 ELSE [invJob EXCEPT !.todo = Tail(@)]
    /\ UNCHANGED <<nextSummary, aggJob, aggRuns, invRuns, dayTicks, aggHist,
                   aggOverlap>>
    /\ UNCHANGED <<authVars, oauthVars, ledgerVars>>

\* The calendar moves on by a month or to just past the retention period.
DaySteps == {30, USAGE_METRICS_RETENTION_DAYS + 1}



new_day(k) ==
    /\ dayTicks < MaxDayTicks
    /\ dayTicks' = dayTicks + 1
    /\ today' = today + k
    /\ now' = now + k * 86400
    /\ UNCHANGED <<status, embedded_signup_completed, minted, oauthVars>>
    /\ UNCHANGED <<daily, nextRow, sessions, nextSession, ledReqs,
                   nextLedReq, asked, reply>>
    /\ UNCHANGED <<monthly, nextSummary, invoices, aggJob, invJob, aggRuns,
                   invRuns, outbox, jobLog, aggHist,
                   aggOverlap>>

\* The access token a tenant holds after refreshing at the current time.
CurrentAccessTokens ==
    {generate_tokens(t, settings, now).access_token : t \in Tenants}

JobUsageTypes == {"call", "message"}

InitJobs ==
    /\ InitProxy
    /\ sessions = <<>>
    /\ nextSession = 0

NextJobs ==
    \/ aggregate_usage_metrics
    \/ aggregate_customer_metrics
    \/ cleanup_old_data
    \/ generate_monthly_invoices
    \/ generate_customer_invoice
    \/ \E k \in DaySteps : new_day(k)
    \/ \E tok \in CurrentAccessTokens, u \in JobUsageTypes,
          n \in ReportCounts, d \in ReportDurations, c \in ReportCosts :
         nextLedReq < MaxJobReports /\ report_usage(tok, u, n, d, c)
    \/ \E r \in ledReqs : record_write(r)

SpecJobs == InitJobs /\ [][NextJobs]_vars

-----------------------------------------------------------------------------
(* report_usage with the values a request body may carry: count,           *)
(* duration_minutes and cost are taken from the JSON body as they are.     *)

SignedCounts == {-1, 1}
SignedDurations == {-60, 60}
SignedCosts == {-50, 50}

InitSigned ==
    /\ InitProxy
    /\ sessions = <<>>
    /\ nextSession = 0

NextSigned ==
    \/ \E e \in MessageEndpoints, tok \in CurrentAccessTokens :
         send_message(e, tok, TRUE, "200")
    \/ \E tok \in CurrentAccessTokens, u \in JobUsageTypes,
          n \in SignedCounts, d \in SignedDurations, c \in SignedCosts :
         report_usage(tok, u, n, d, c)
    \/ \E r \in ledReqs : record_write(r)

SpecSigned == InitSigned /\ [][NextSigned]_vars

-----------------------------------------------------------------------------
(* Claims about the daily ledger: SpecLedger and SpecSuspend.              *)

MessagesAsked == {key \in DOMAIN asked : asked[key] > 0}

\* C3: once every message recording that was started for a tenant and a
\* date has finished, the Daily Usage Row of that tenant and date shows
\* exactly as many messages as were recorded: no increment is lost.
C3_NoLostMessageIncrement ==
    ledReqs = {} =>
        \A key \in MessagesAsked :
            \E x \in RowsOf(daily, key[1], key[2]) :
                x.total_messages = asked[key]

C6_SuspendedTenantRejected ==
    \A r \in ledReqs : r.authStatus = "Active"

\* C10: every Daily Usage Row satisfies
\* total_revenue = total_call_cost + total_message_cost + total_markup.
C10_RevenueIsCostPlusMarkup ==
    \A x \in daily :
        x.total_revenue =
            x.total_call_cost + x.total_message_cost + x.total_markup

-----------------------------------------------------------------------------
(* Claims about the scheduled jobs: SpecJobs.                              *)

InvoicesFor(s) == {i \in invoices : i.from_summary = s.name}

\* C7: however often generate_monthly_invoices runs for a month, every
\* Monthly Usage Summary has exactly one Customer Invoice once it is marked
\* invoiced and none before, and a run that follows a run for the same month,
\* no summary of that month having been added since, finds nothing to invoice.
C7_OneInvoicePerSummary ==
    /\ \A s \in monthly :
          Cardinality(InvoicesFor(s)) = IF s.invoice_generated THEN 1 ELSE 0
    /\ \A i \in invoices : \E s \in monthly : s.name = i.from_summary
    /\ (/\ Len(invRuns) = 2
        /\ invRuns[1].month = invRuns[2].month
        /\ Cardinality({s \in monthly : s.month = invRuns[1].month})
              = invRuns[1].found)
          => invRuns[2].found = 0

\* Two finished runs for the same month: the first invoiced a summary, the
\* second found none, and the summary has its one invoice.
C7_Witness ==
    /\ Len(invRuns) = 2
    /\ invJob.pc = "idle"
    /\ invRuns[1].month = invRuns[2].month
    /\ invRuns[1].found > 0
    /\ invRuns[2].found = 0
    /\ \E s \in monthly : /\ s.month = invRuns[1].month
                          /\ s.invoice_generated
                          /\ Cardinality(InvoicesFor(s)) = 1

\* invoice_generated aside, the columns of a summary row.
Totals(rows) == {[x EXCEPT !.invoice_generated = FALSE] : x \in rows}

\* C8: when an aggregation run reads for a tenant and a month the same
\* Daily Usage Rows as the run before it, it leaves exactly one Monthly
\* Usage Summary for them, changes nothing in it, and its totals are those
\* the earlier run left.
C8_AggregationIdempotent ==
    \A key \in DOMAIN aggHist :
        LET h == aggHist[key]
        IN (h.n >= 2 /\ h.read = h.prevRead) =>
              /\ Cardinality(h.after) = 1
              /\ h.after = h.before
              /\ Totals(h.after) = Totals(h.prevAfter)

\* A second run over the same, non-empty, set of daily rows.
C8_Witness ==
    \E key \in DOMAIN aggHist :
        /\ aggHist[key].n >= 2
        /\ aggHist[key].read # {}
        /\ aggHist[key].read = aggHist[key].prevRead
        /\ Cardinality(aggHist[key].after) = 1

\* C9: no step of any job takes invoice_generated back from true or removes
\* a Monthly Usage Summary that has it.
C9_InvoicedStaysInvoiced ==
    [][\A s \in monthly :
          s.invoice_generated =>
              \E x \in monthly' : x.name = s.name /\ x.invoice_generated]_vars

\* An aggregation run has rewritten a summary that was already invoiced.
C9_Witness ==
    \E key \in DOMAIN aggHist :
        /\ \E s \in aggHist[key].before : s.invoice_generated
        /\ \E s \in aggHist[key].after : s.invoice_generated

-----------------------------------------------------------------------------
(* Claims about the values of a Daily Usage Row: SpecSigned.               *)

NumericFields ==
    {"total_calls", "total_call_minutes", "total_messages", "total_call_cost",
     "total_message_cost", "total_markup", "total_revenue"}

\* C11: no step of a recording operation makes a numeric field of a Daily
\* Usage Row smaller than it was, whatever count, duration_minutes and cost
\* the requests carry.
C11_FieldsNeverDecrease ==
    [][\A x \in daily : \A y \in daily' :
          y.name = x.name => \A f \in NumericFields : y[f] >= x[f]]_vars

-----------------------------------------------------------------------------
(* Claims about the OAuth endpoints: SpecCode and SpecTokens.              *)

\* Every pair the authorization_code grant minted went to a request whose
\* lookup found the code in the Token Store, stored for the client the
\* request authenticated as and with the redirect_uri the request supplied.
GrantsMatchCode ==
    \A g \in grants :
        /\ g.code_data # NoEntry
        /\ g.code_data.customer_id = g.customer
        /\ g.code_data.redirect_uri = g.redirect_uri

\* The grant passes its checks exactly for a stored, unexpired code of the
\* same tenant and redirect_uri, and it refuses every other presented code
\* with invalid_grant.
CodeCheckedAgainstStore ==
    \A c \in Tenants : \A k \in Codes : \A u \in RedirectUris :
        LET chk == authorization_code_check(c, k, u, oauthCodes, now)
            e == CacheGet(oauthCodes, k, now)
        IN IF e # NoEntry /\ e.customer_id = c /\ e.redirect_uri = u
             THEN chk[1] = ""
           ELSE chk[1] = "invalid_grant"

\* A token() answer of the authorization_code grant that is a failure.
CodeGrantFailed ==
    /\ last.op = "token"
    /\ last.customer \in Tenants
    /\ last.error \notin {"", "unsupported_grant_type"}

\* C12 as stated: the authorization_code grant mints only for a code that
\* is in the Token Store with the same tenant and redirect_uri, and every
\* other request to the grant is answered invalid_grant.
C12_AnyOtherCaseInvalidGrant ==
    /\ GrantsMatchCode
    /\ CodeGrantFailed => last.error = "invalid_grant"

\* C12 amended: as stated, except that a request that supplies no code at
\* all is answered invalid_request.
C12_CodeGrantChecked ==
    /\ GrantsMatchCode
    /\ CodeCheckedAgainstStore
    /\ CodeGrantFailed =>
          IF last.code = NoCode THEN last.error = "invalid_request"
          ELSE last.error = "invalid_grant"

\* Tenant t2 presented, with its own credentials, a code stored for t1.
C12_Witness ==
    /\ last.op = "token"
    /\ last.error = "invalid_grant"
    /\ last.error_description = "Code not issued to this client"
    /\ last.code \in DOMAIN oauthCodes
    /\ oauthCodes[last.code].customer_id # last.customer

-----------------------------------------------------------------------------
(* Client authentication of token(): every grant type, with and without a  *)
(* code or a refresh token, while the admin suspends and reactivates        *)
(* tenants.  Each tenant holds the pair it obtained at time 0.              *)

AllGrantTypes == {"authorization_code", "refresh_token", "password"}

\* The refresh tokens issued so far.
RefreshTokens == {tok \in minted : tok.type = "refresh"}

NextClient ==
    \/ \E g \in AllGrantTypes, c \in ClientIds \cup {""}, s \in Secrets,
          k \in {NoCode} \cup Codes, tok \in RefreshTokens \cup {NoToken} :
         token(g, c, s, k, <<>>, tok)
    \/ \E t \in Tenants : suspend(t)
    \/ \E t \in Tenants : activate(t)

SpecClient == InitTokens /\ [][NextClient]_vars

\* The credentials the claim lists: one of the two is missing, the secret is
\* not the tenant's stored one, or the tenant is not Active.
BadCredentials(client_id, client_secret) ==
    \/ client_id = ""
    \/ client_secret = ""
    \/ /\ client_id \in Tenants
       /\ \/ client_secret # SecretOf(client_id)
          \/ status[client_id] # "Active"

\* C13: every token() step made with a missing client_id or client_secret,
\* with a secret that is not the tenant's, or for a tenant that is not
\* Active answers invalid_client whatever the grant type, code and refresh
\* token are, and mints nothing (a step with any other outcome is not a
\* token() call with such credentials); and a token() step that mints a pair
\* mints it for a tenant that is Active at that step.
C13_InvalidClientFirst ==
    [][/\ last'.op = "token" =>
            \/ /\ last'.error = "invalid_client"
               /\ minted' = minted
               /\ tokReqs' = tokReqs
            \/ \A c \in ClientIds \cup {""}, s \in Secrets :
                  BadCredentials(c, s) =>
                     \A g \in AllGrantTypes :
                        ~token(g, c, s, last'.code, <<>>, last'.tok)
       /\ (minted' # minted /\ last'.op = "token") =>
             /\ last'.customer \in Tenants
             /\ status[last'.customer] = "Active"]_vars

\* C13 witness: a token() call presenting the valid refresh token of a
\* suspended tenant was answered invalid_client.
C13_Witness ==
    /\ last.op = "token"
    /\ last.error = "invalid_client"
    /\ last.tok \in minted
    /\ last.tok.type = "refresh"
    /\ jwt_decode(last.tok, now) = "ok"
    /\ status[last.tok.customer_id] = "Suspended"

-----------------------------------------------------------------------------
(* authorize() against the registered site URL.  WhatsAppCustomer.validate  *)
(* accepts a record without frappe_site_url, so the second tenant may have  *)
(* none.                                                                    *)

SiteUrlChoices ==
    { [t \in Tenants |-> SiteUrl(t)],
      [t \in Tenants |-> IF t = "t2" THEN <<>> ELSE SiteUrl(t)] }

InitRedirect ==
    /\ InitFresh
    /\ frappe_site_url \in SiteUrlChoices

NextRedirect ==
    \/ \E c \in ClientIds \cup {""}, u \in RedirectUris \cup {<<>>},
          rt \in ResponseTypes :
         authorize(c, u, rt)
    \/ \E d \in TickSteps : Tick(d)
    \/ \E t \in Tenants : suspend(t)
    \/ \E t \in Tenants : activate(t)

SpecRedirect == InitRedirect /\ [][NextRedirect]_vars

\* redirect_uri begins with the tenant's registered site URL.
BeginsWithSite(t, redirect_uri) ==
    /\ frappe_site_url[t] # <<>>
    /\ IsPrefix(frappe_site_url[t], redirect_uri)

\* C14: every stored code carries a redirect_uri that begins with the
\* registered site URL of the tenant it was issued to; and an authorize()
\* call of an Active tenant with response_type "code" and any other
\* redirect_uri, or any redirect_uri when the tenant has no site URL, fails
\* with "Invalid redirect_uri" and leaves the Token Store as it was.
C14_CodeOnlyForRegisteredSite ==
    [][/\ \A k \in DOMAIN oauthCodes' :
             BeginsWithSite(oauthCodes'[k].customer_id,
                            oauthCodes'[k].redirect_uri)
       /\ \A c \in Tenants, u \in RedirectUris :
             (/\ status[c] = "Active"
              /\ ~BeginsWithSite(c, u)
              /\ authorize(c, u, "code"))
                => /\ last'.error = "throw"
                   /\ last'.error_description = "Invalid redirect_uri"
                   /\ oauthCodes' = oauthCodes
                   /\ nextCode' = nextCode]_vars

\* C14 witness: a tenant without a registered site URL called authorize()
\* and was refused with "Invalid redirect_uri"; no code is stored for it.
C14_Witness ==
    /\ last.op = "authorize"
    /\ last.error_description = "Invalid redirect_uri"
    /\ last.customer \in Tenants
    /\ frappe_site_url[last.customer] = <<>>
    /\ \A k \in DOMAIN oauthCodes : oauthCodes[k].customer_id # last.customer

-----------------------------------------------------------------------------
(* validate_token() while tokens expire, tenants are suspended and a tenant *)
(* record is deleted.  Each tenant holds the pair it obtained at time 0.    *)

\* The WhatsApp Customer document is deleted (the case validate_token tests
\* with frappe.db.exists).
delete_customer(t) ==
    /\ status[t] # "Absent"
    /\ status' = [status EXCEPT ![t] = "Absent"]
    /\ UNCHANGED <<now, minted, embedded_signup_completed, oauthVars, ledgerVars,
                   jobVars>>

NextValidate ==
    \/ \E tok \in PresentableTokens : validate_token_call(tok)
    \/ \E c \in Tenants, tok \in RefreshTokens : refresh(c, SecretOf(c), tok)
    \/ \E d \in TickSteps : Tick(d)
    \/ \E t \in Tenants : suspend(t)
    \/ \E t \in Tenants : activate(t)
    \/ \E t \in Tenants : delete_customer(t)

SpecValidate == InitTokens /\ [][NextValidate]_vars

\* C15: a validate_token() step returns the token's tenant exactly when the
\* token is signed, unexpired, of kind "access" and its tenant record exists,
\* returns none without raising otherwise, and changes neither the Token
\* Store, nor the tenant records, nor the ledger.
C15_ValidateTokenReadOnly ==
    [][\A tok \in PresentableTokens :
          validate_token_call(tok) =>
             /\ last'.error = ""
             /\ last'.customer =
                   IF /\ tok.sig
                      /\ tok.exp > now
                      /\ tok.type = "access"
                      /\ status[tok.customer_id] # "Absent"
                   THEN tok.customer_id ELSE "None"
             /\ UNCHANGED <<oauthCodes, minted, status, frappe_site_url>>
             /\ UNCHANGED <<daily, monthly, invoices, sessions>>]_vars

\* C15 witness: validate_token was given a signed, unexpired access token
\* whose tenant record has been deleted, and returned none.
C15_Witness ==
    /\ last.op = "validate_token"
    /\ last.tok \in minted
    /\ last.tok.type = "access"
    /\ jwt_decode(last.tok, now) = "ok"
    /\ status[last.tok.customer_id] = "Absent"
    /\ last.customer = "None"

-----------------------------------------------------------------------------
(* The refresh_token grant *)

\* Token tok is validly signed, unexpired at time t, of kind "refresh" and
\* claims tenant c.
Honoured(tok, c, t) ==
    /\ tok.sig
    /\ tok.exp > t
    /\ tok.type = "refresh"
    /\ tok.customer_id = c

\* What the claim asks of a refused token: invalid_grant, nothing minted, and
\* "expired" told apart from "malformed".
RefusedAsInvalidGrant(tok) ==
    /\ last'.error = "invalid_grant"
    /\ minted' = minted
    /\ (tok.sig /\ tok.exp <= now)
          => last'.error_description = "Refresh token expired"
    /\ ~tok.sig => last'.error_description = ERR_INVALID_TOKEN

\* A step in which Active tenant c, authenticated with its own secret, uses
\* the refresh_token grant with the token recorded in the answer.
RefreshGrantStep(c) ==
    /\ status[c] = "Active"
    /\ last'.op = "token"
    /\ token("refresh_token", c, SecretOf(c), NoCode, <<>>, last'.tok)

\* C16 as stated: the refresh_token grant mints a fresh pair when the token
\* is signed, unexpired, of kind "refresh" and claims the authenticated
\* client, and in every other case returns invalid_grant.
C16_OtherwiseInvalidGrant ==
    [][\A c \in Tenants :
          RefreshGrantStep(c) =>
             IF Honoured(last'.tok, c, now)
               THEN /\ last'.error = ""
                    /\ generate_tokens(c, settings, now).refresh_token \in minted'
                    /\ generate_tokens(c, settings, now).access_token \in minted'
               ELSE RefusedAsInvalidGrant(last'.tok)]_vars

\* C16 amended: as above, except that a request carrying no refresh token is
\* answered invalid_request, and mints nothing.
C16_RefreshGrantChecked ==
    [][\A c \in Tenants :
          RefreshGrantStep(c) =>
             IF Honoured(last'.tok, c, now)
               THEN /\ last'.error = ""
                    /\ generate_tokens(c, settings, now).refresh_token \in minted'
                    /\ generate_tokens(c, settings, now).access_token \in minted'
             ELSE IF last'.tok = NoToken
               THEN last'.error = "invalid_request" /\ minted' = minted
               ELSE RefusedAsInvalidGrant(last'.tok)]_vars

\* C16 witness: an authenticated client presented the valid, unexpired
\* refresh token of another tenant and was answered invalid_grant.
C16_Witness ==
    /\ last.op = "token"
    /\ last.error = "invalid_grant"
    /\ last.customer \in Tenants
    /\ last.tok \in minted
    /\ last.tok.type = "refresh"
    /\ jwt_decode(last.tok, now) = "ok"
    /\ last.tok.customer_id # last.customer

-----------------------------------------------------------------------------
(* Message sends and the ledger *)

\* total_messages of the Daily Usage Row of tenant c and date d, 0 without
\* a row.
MessagesOn(rows, c, d) ==
    IF RowsOf(rows, c, d) = {} THEN 0
    ELSE (CHOOSE x \in RowsOf(rows, c, d) : TRUE).total_messages

\* C17: the recording step of a send_template, send_text or send_media
\* request whose provider call returned 200 raises total_messages of the
\* tenant's row for today by exactly 1, and a request whose provider call
\* returned a non-200 status or failed in transport changes no ledger row.
C17_SuccessCountsOnce ==
    [][/\ \A r \in ledReqs :
             (r.op = "message" /\ record_write(r)) =>
                MessagesOn(daily', r.customer, r.date)
                   = MessagesOn(daily, r.customer, r.date) + 1
       /\ \A e \in MessageEndpoints, tok \in BearerTokens,
             p \in ProviderOutcomes \ {"200"} :
             send_message(e, tok, TRUE, p) => daily' = daily]_vars

-----------------------------------------------------------------------------
(* Reading the ledger: _get_balance_info and get_usage_summary, applied to  *)
(* ledgers that report_usage has filled on earlier days.                    *)

\* The thresholds 0.75 and 0.90, in percent.
USAGE_WARNING_THRESHOLD == 75
USAGE_ALERT_THRESHOLD == 90

\* SELECT SUM(total_revenue) ... WHERE customer = %s AND date >= %s
month_to_date_usage(rows, customer_id, d) ==
    SumOf({x \in rows : x.customer = customer_id
                        /\ x.date >= month_start(MonthOf(d))},
          "total_revenue")

\* The quota status with both thresholds compared strictly.
get_balance_info_strict(rows, customer_id, balance, d) ==
    LET total_usage == month_to_date_usage(rows, customer_id, d)
        quota_status ==
            IF balance > 0 /\ total_usage * 100 > USAGE_ALERT_THRESHOLD * balance
              THEN "critical"
            ELSE IF balance > 0
                    /\ total_usage * 100 > USAGE_WARNING_THRESHOLD * balance
              THEN "warning"
            ELSE "ok"
    IN [balance |-> balance, total_usage |-> total_usage,
        quota_status |-> quota_status,
        alerts |-> IF quota_status = "critical" THEN <<"quota_critical">>
                   ELSE IF quota_status = "warning" THEN <<"quota_warning">>
                   ELSE <<>>]

\* _get_balance_info.  usage_ratio = total_usage / balance is compared with
\* a threshold t/100 as total_usage * 100 >= t * balance (balance > 0), on
\* the decimal values of the two amounts.
get_balance_info(rows, customer_id, balance, d) ==
    LET total_usage == month_to_date_usage(rows, customer_id, d)
        quota_status ==
            IF balance > 0 /\ total_usage * 100 >= USAGE_ALERT_THRESHOLD * balance
              THEN "critical"
            ELSE IF balance > 0
                    /\ total_usage * 100 >= USAGE_WARNING_THRESHOLD * balance
              THEN "warning"
            ELSE "ok"
    IN [balance |-> balance, total_usage |-> total_usage,
        quota_status |-> quota_status,
        alerts |-> IF quota_status = "critical" THEN <<"quota_critical">>
                   ELSE IF quota_status = "warning" THEN <<"quota_warning">>
                   ELSE <<>>]

\* _get_balance_info(customer_id) for a customer whose current_balance is
\* balance.
balance_status(customer_id, balance) ==
    /\ reply' = Reply("balance_status", customer_id,
                      get_balance_info(daily, customer_id, balance, today))
    /\ UNCHANGED <<today, daily, nextRow, sessions, nextSession, ledReqs,
                   nextLedReq, asked>>
    /\ UNCHANGED <<authVars, oauthVars, jobVars>>

\* A date parameter of the query string: absent, or a day.
NoDate == [given |-> FALSE, day |-> 0]
DateParam(d) == [given |-> TRUE, day |-> d]

\* The date range with "week" taken as the last seven days, today included.
usage_range_seven_days(period, start_date, end_date, d) ==
    IF period = "today" THEN <<d, d>>
    ELSE IF period = "week" THEN <<d - 6, d>>
    ELSE IF period = "month" THEN <<month_start(MonthOf(d)), d>>
    ELSE IF period = "custom" /\ start_date.given /\ end_date.given
      THEN <<start_date.day, end_date.day>>
    ELSE <<month_start(MonthOf(d)), d>>

\* get_usage_summary: the date range <<start, end>> of a period.
usage_range(period, start_date, end_date, d) ==
    IF period = "today" THEN <<d, d>>
    ELSE IF period = "week" THEN <<d - 7, d>>
    ELSE IF period = "month" THEN <<month_start(MonthOf(d)), d>>
    ELSE IF period = "custom" /\ start_date.given /\ end_date.given
      THEN <<start_date.day, end_date.day>>
    ELSE <<month_start(MonthOf(d)), d>>

\* WHERE customer = %s AND date BETWEEN %s AND %s
RowsBetween(rows, customer_id, range) ==
    {x \in rows : /\ x.customer = customer_id
                  /\ x.date >= range[1]
                  /\ x.date <= range[2]}

\* get_usage_summary: the answers it can give.  Counts are sums; minutes,
\* cost and revenue are sums rounded to 2 decimal places (units of 0.01).
usage_summaries(rows, customer_id, period, start_date, end_date, d) ==
    LET range == usage_range(period, start_date, end_date, d)
        R == RowsBetween(rows, customer_id, range)
    IN { [period |-> period, start_date |-> start_date, end_date |-> end_date,
          range |-> range,
          total_calls |-> SumOf(R, "total_calls"),
          total_call_minutes |-> mins,
          total_messages |-> SumOf(R, "total_messages"),
          total_cost |-> cost,
          total_revenue |-> rev,
          daily |-> {x.date : x \in R}] :
         mins \in NearestIntegers(SumOf(R, "total_call_minutes") * 100, 60),
         cost \in NearestIntegers(SumOf(R, "total_call_cost")
                                   + SumOf(R, "total_message_cost"), 100),
         rev \in NearestIntegers(SumOf(R, "total_revenue"), 100) }

\* get_usage_summary
get_usage_summary(tok, period, start_date, end_date) ==
    LET who == authenticate_request_metrics(tok, now, status) IN
    /\ IF who = "AuthenticationError"
         THEN reply' = Reply("usage_summary", who, "AuthenticationError")
       ELSE \E result \in usage_summaries(daily, who, period, start_date,
                                           end_date, today) :
              reply' = Reply("usage_summary", who, result)
    /\ UNCHANGED <<today, daily, nextRow, sessions, nextSession, ledReqs,
                   nextLedReq, asked>>
    /\ UNCHANGED <<authVars, oauthVars, jobVars>>

\* The days with reported usage.
ReportDates == {1, 8, 26, 30, 33}

\* The cost t1 reported on day d, in units of 0.0001.
CostOn(d) ==
    IF d = 1 THEN 75 ELSE IF d = 8 THEN 15
    ELSE IF d = 26 THEN 20 ELSE IF d = 30 THEN 75 ELSE 15

\* The ledger after t1 reported one call on each day of S and t2 one on the
\* first day.
Ledger(S) ==
    { daily_before_save(daily_validate(
          doc_report_call(Cardinality({e \in S : e <= d}), "t1", d, 1, 60,
                          CostOn(d)))) : d \in S }
    \cup { daily_before_save(daily_validate(
               doc_report_call(Cardinality(S) + 1, "t2", 1, 1, 60, 100))) }

InitReports ==
    /\ InitServing
    /\ sessions = <<>>
    /\ nextSession = 0
    /\ today \in {8, 33}
    /\ \E S \in SUBSET {d \in ReportDates : d <= today} :
          /\ daily = Ledger(S)
          /\ nextRow = Cardinality(S) + 1

\* current_balance is given in units of 0.0001; "year" is a period the
\* handler does not know; a date parameter is absent, day 1 or day 30.
NextReports ==
    \/ \E c \in Tenants, b \in {-100, 0, 100, 101} : balance_status(c, b)
    \/ \E tok \in CurrentAccessTokens \cup {NoToken},
          period \in {"today", "week", "month", "custom", "year"},
          start_date \in {NoDate, DateParam(1), DateParam(30)},
          end_date \in {NoDate, DateParam(1), DateParam(30)} :
         get_usage_summary(tok, period, start_date, end_date)

SpecReports == InitReports /\ [][NextReports]_vars

-----------------------------------------------------------------------------
(* _calculate_call_cost over durations and plan markups *)

\* Subscription Plan.call_markup_percentage of the customer's plan; -1 stands
\* for a customer without a plan.
NoPlan == -1

\* _calculate_call_cost(duration_seconds, customer) for a customer whose plan
\* has the given markup.
quote_call(duration_seconds, plan_markup) ==
    /\ \E cost \in call_cost(duration_seconds,
                             IF plan_markup = NoPlan THEN DefaultMarkupPercentage
                             ELSE plan_markup) :
          reply' = Reply("call_cost", "None",
                         [duration_seconds |-> duration_seconds,
                          plan_markup |-> plan_markup, cost |-> cost])
    /\ UNCHANGED <<today, daily, nextRow, sessions, nextSession, ledReqs,
                   nextLedReq, asked>>
    /\ UNCHANGED <<authVars, oauthVars, jobVars>>

\* Durations: none, a few seconds, around one and two minutes, an hour.
NextCost ==
    \/ \E d \in {0, 1, 2, 3, 7, 59, 60, 61, 119, 120, 121, 3600},
          p \in 0..100 \cup {NoPlan} :
         quote_call(d, p)

SpecCost == InitCalls /\ [][NextCost]_vars

\* x is n / d rounded to the nearest integer.
IsRounded(x, n, d) == 2 * (x * d - n) <= d /\ 2 * (n - x * d) <= d

\* C19: for every duration d >= 0 and plan markup p in 0..100, in units of
\* 0.0001: base_cost is (d/60)*0.03 = 300d/60, markup is base_cost*p/100 (or
\* base_cost*0.35 without a plan) and total_cost is base_cost plus that
\* markup, each rounded to 4 decimal places; 120 seconds at 30% give 0.0600,
\* 0.0180 and 0.0780.
C19_CallCost ==
    reply.op = "call_cost" =>
        LET d == reply.result.duration_seconds
            p == IF reply.result.plan_markup = NoPlan THEN 35
                 ELSE reply.result.plan_markup
            c == reply.result.cost
        IN /\ IsRounded(c.base_cost, d * 300, 60)
           /\ IsRounded(c.markup, d * 300 * p, 6000)
           /\ IsRounded(c.total_cost, d * 300 * (100 + p), 6000)
           /\ (d = 120 /\ reply.result.plan_markup = 30) =>
                 c = [base_cost |-> 600, markup |-> 180, total_cost |-> 780]

\* C19 witness: the cost of a 120-second call on a plan with a 30% markup.
C19_Witness ==
    /\ reply.op = "call_cost"
    /\ reply.result.duration_seconds = 120
    /\ reply.result.plan_markup = 30
    /\ reply.result.cost.total_cost = 780

-----------------------------------------------------------------------------
(* get_usage_summary *)

\* The range the claim gives for the request echoed in answer r.
ClaimedRange(r) ==
    IF r.period = "today" THEN <<today, today>>
    ELSE IF r.period = "week" THEN <<today - 7, today>>
    ELSE IF r.period = "month" THEN <<today - (today % 30), today>>
    ELSE IF r.period = "custom" /\ r.start_date.given /\ r.end_date.given
      THEN <<r.start_date.day, r.end_date.day>>
    ELSE <<today - (today % 30), today>>

\* The last answer of get_usage_summary covers the claimed range and sums
\* exactly the tenant's rows dated within it, both ends included.
SummaryOverClaimedRange ==
    (reply.op = "usage_summary" /\ reply.customer \in Tenants) =>
        LET r == reply.result
            R == {x \in daily : /\ x.customer = reply.customer
                                /\ ClaimedRange(r)[1] <= x.date
                                /\ x.date <= ClaimedRange(r)[2]}
        IN /\ r.range = ClaimedRange(r)
           /\ r.total_calls = SumOf(R, "total_calls")
           /\ r.total_messages = SumOf(R, "total_messages")
           /\ IsRounded(r.total_call_minutes,
                        SumOf(R, "total_call_minutes") * 100, 60)
           /\ IsRounded(r.total_cost, SumOf(R, "total_call_cost")
                                        + SumOf(R, "total_message_cost"), 100)
           /\ IsRounded(r.total_revenue, SumOf(R, "total_revenue"), 100)
           /\ r.daily = {x.date : x \in R}

\* C20: get_usage_summary sums the tenant's Daily Usage Rows dated in
\* [start, end] inclusive, where "today" is [today, today], "week" is
\* [today - 7, today], "month" is [first of month, today], "custom" is the
\* given start_date and end_date and any other period is [first of month,
\* today]; and the step that answers changes no row of any table.
C20_UsageSummaryPureRead ==
    [][/\ SummaryOverClaimedRange'
       /\ (reply'.op = "usage_summary" /\ reply' # reply) =>
             /\ daily' = daily
             /\ monthly' = monthly
             /\ invoices' = invoices]_vars

\* C20 witness: a "week" summary read on day 33 reaches back to day 26, in
\* the month before, and counts the row of that day.
C20_Witness ==
    /\ reply.op = "usage_summary"
    /\ reply.customer = "t1"
    /\ reply.result.period = "week"
    /\ today = 33
    /\ reply.result.range = <<26, 33>>
    /\ 26 \in reply.result.daily
    /\ 30 \in reply.result.daily
    /\ reply.result.total_calls = 2

-----------------------------------------------------------------------------
(* The values an aggregation leaves in a Monthly Usage Summary: SpecJobs.  *)

PlanFee(t) ==
    IF SubscriptionPlan(t) = "" THEN 0
    ELSE BaseMonthlyFee(SubscriptionPlan(t))

SummaryMatchesLedger(s, rows, t, m) ==
    LET R == {x \in rows : /\ x.customer = t
                            /\ MonthOf(x.date) = m}
    IN /\ s.total_calls = SumOf(R, "total_calls")
       /\ s.total_call_minutes = SumOf(R, "total_call_minutes")
       /\ s.total_messages = SumOf(R, "total_messages")
       /\ s.usage_charges = SumOf(R, "total_revenue")
       /\ s.base_fee = PlanFee(t)
       /\ s.total_amount = s.base_fee + s.usage_charges

\* C21: right after _aggregate_customer_metrics has run for a tenant and a
\* month, there is a Monthly Usage Summary for them, and its total_calls,
\* total_call_minutes and total_messages are the sums over the tenant's
\* Daily Usage Rows of that month, its usage_charges the sum of their
\* total_revenue, its base_fee the fee of the tenant's plan (0 without a
\* plan) and its total_amount base_fee + usage_charges, whether the summary
\* was created or an existing one was updated.
C21_SummaryMatchesLedger ==
    [][aggHist' # aggHist =>
         LET t == Head(aggJob.todo)
             m == aggJob.month
             S == {s \in monthly' : s.customer = t /\ s.month = m}
         IN /\ S # {}
            /\ \A s \in S : SummaryMatchesLedger(s, daily', t, m)
            /\ daily' = daily]_vars

\* An existing summary has just been updated to new, non-zero totals of a
\* tenant with a plan, and one has just been created for a tenant without.
C21_Witness ==
    /\ \E key \in DOMAIN aggHist :
          /\ key[1] = "t1"
          /\ aggHist[key].n >= 2
          /\ aggHist[key].before # {}
          /\ aggHist[key].after # aggHist[key].before
          /\ \E s \in aggHist[key].after :
                /\ s.usage_charges > 0
                /\ s \in monthly
                /\ SummaryMatchesLedger(s, daily, key[1], key[2])
    /\ \E key \in DOMAIN aggHist :
          /\ key[1] = "t2"
          /\ aggHist[key].n = 1
          /\ aggHist[key].before = {}
          /\ \E s \in aggHist[key].after : s.base_fee = 0 /\ s \in monthly

-----------------------------------------------------------------------------
(* The invoice made from a Monthly Usage Summary: SpecJobs.                *)

\* C22: every Customer Invoice the invoicing job creates mirrors the
\* Monthly Usage Summary it was created from: it is a Draft, its period runs
\* from the first to the last day of the prior month with the end not before
\* the start, and its stored base_fee, total_calls, total_messages and
\* total_amount are the summary's, so that the stored total_amount includes
\* the summary's usage_charges.
C22_InvoiceMirrorsSummary ==
    [][invoices' # invoices =>
         LET summary == Head(invJob.todo)
         IN \A i \in invoices' \ invoices :
               /\ i.from_summary = summary.name
               /\ i.customer = summary.customer
               /\ i.invoice_status = "Draft"
               /\ i.invoice_period_start = month_start(invJob.month)
               /\ i.invoice_period_end = month_end(invJob.month)
               /\ i.invoice_period_end >= i.invoice_period_start
               /\ i.base_fee = summary.base_fee
               /\ i.total_calls = summary.total_calls
               /\ i.total_messages = summary.total_messages
               /\ i.total_amount = summary.total_amount
               /\ i.total_amount = i.base_fee + summary.usage_charges]_vars

-----------------------------------------------------------------------------
(* Invoice notifications that are not delivered: SpecJobs.                 *)

\* C23: when the notification of a new invoice is not delivered, because
\* sending the email failed or the tenant has no contact email, the invoice
\* is stored all the same, its summary has invoice_generated set, the job
\* goes on with the summaries that remain, and no later step removes an
\* invoice.
C23_UndeliveredKeepsInvoice ==
    [][/\ invoices \subseteq invoices'
       /\ invoices' # invoices =>
            LET summary == Head(invJob.todo)
            IN \A i \in invoices' \ invoices :
                  i.name \notin outbox' =>
                     /\ i.from_summary = summary.name
                     /\ \E s \in monthly' : /\ s.name = summary.name
                                            /\ s.invoice_generated
                     /\ invJob' = IF Len(invJob.todo) = 1 THEN IdleJob
                                  ELSE [invJob EXCEPT !.todo = Tail(@)]]_vars

\* A run over two summaries is through: one email failed, one tenant has no
\* address, nothing was delivered, and both invoices and marks are there.
C23_Witness ==
    /\ invJob.pc = "idle"
    /\ "invoice_email" \in jobLog
    /\ outbox = {}
    /\ Cardinality(invoices) = 2
    /\ \E i \in invoices : CompanyEmail(i.customer) = ""
    /\ \E i \in invoices : CompanyEmail(i.customer) # ""
    /\ \A i \in invoices :
          \E s \in monthly : s.name = i.from_summary /\ s.invoice_generated

-----------------------------------------------------------------------------
(* An aggregation run over customers that may be deleted meanwhile.        *)

NextAggregate ==
    \/ aggregate_usage_metrics
    \/ aggregate_customer_metrics
    \/ aggregate_customer_failed
    \/ \E t \in Tenants : delete_customer(t)
    \/ \E tok \in CurrentAccessTokens, n \in ReportCounts, c \in ReportCosts :
         nextLedReq < MaxJobReports /\ report_usage(tok, "message", n, 0, c)
    \/ \E r \in ledReqs : record_write(r)

SpecAggregate == InitJobs /\ [][NextAggregate]_vars

\* C24: when a turn of the loop of aggregate_usage_metrics fails for one
\* tenant, the failure is logged, the job does not crash, and every other
\* tenant of the run that is Active is still aggregated in that run.
C24_FailureIsolatedPerTenant ==
    [][(aggJob.pc = "running" /\ aggJob' # aggJob /\ aggHist' = aggHist) =>
          /\ "usage_aggregation" \in jobLog'
          /\ \A k \in 2..Len(aggJob.todo) :
                status[aggJob.todo[k]] = "Active" =>
                   /\ aggJob'.pc = "running"
                   /\ \E j \in DOMAIN aggJob'.todo :
                         aggJob'.todo[j] = aggJob.todo[k]]_vars

-----------------------------------------------------------------------------
(* Two aggregation runs at once.  Nothing in aggregate_usage_metrics or    *)
(* in scheduler_events keeps a run from starting while another is still    *)
(* in its loop; the second run is followed statement by statement.         *)

\* The hourly event calls aggregate_usage_metrics while the earlier run is
\* still executing: the function takes no lock and checks for no other run.
aggregate_usage_metrics_again ==
    /\ aggJob.pc = "running"
    /\ aggOverlap.pc = "idle"
    /\ aggRuns < MaxAggRuns
    /\ aggRuns' = aggRuns + 1
    /\ \E order \in Orderings({t \in Tenants : status[t] = "Active"}) :
         aggOverlap' = IF order = <<>> THEN IdleJob
                       ELSE [pc |-> "running", month |-> MonthOf(today),
                             todo |-> order]
    /\ UNCHANGED <<monthly, nextSummary, invoices, aggJob, invJob, invRuns,
                   dayTicks, outbox, jobLog, aggHist>>
    /\ UNCHANGED <<authVars, oauthVars, ledgerVars>>

\* _aggregate_customer_metrics of the second run up to the write: the sums
\* and the name of the existing summary have been read.
overlap_read ==
    /\ aggOverlap.pc = "running"
    /\ LET customer_id == Head(aggOverlap.todo)
           m == aggOverlap.month
       IN \E existing \in ExistingSummaries(monthly, customer_id, m) :
            aggOverlap' =
                [pc |-> "write", month |-> m, todo |-> aggOverlap.todo,
                 existing |-> existing,
                 read |-> RowsInMonth(daily, customer_id, m),
                 values |-> summary_values(
                                aggregate_sql(daily, customer_id, m),
                                customer_base_fee(customer_id))]
    /\ UNCHANGED <<monthly, nextSummary, invoices, aggJob, invJob, aggRuns,
                   invRuns, dayTicks, outbox, jobLog, aggHist>>
    /\ UNCHANGED <<authVars, oauthVars, ledgerVars>>

\* The write of the second run: set_value on the summary it found, insert()
\* when it found none.  When the other run has inserted the summary since
\* the read, the insert adds a second row for the same customer and month
\* or, where the table refuses it, raises; the error is logged by the except
\* clause of aggregate_usage_metrics and ends this run.
overlap_write ==
    /\ aggOverlap.pc = "write"
    /\ LET customer_id == Head(aggOverlap.todo)
           m == aggOverlap.month
           v == aggOverlap.values
           rest == IF Len(aggOverlap.todo) = 1 THEN IdleJob
                   ELSE [pc |-> "running", month |-> m,
                         todo |-> Tail(aggOverlap.todo)]
           written == /\ aggHist' = HistAdd(aggHist, <<customer_id, m>>,
                                            aggOverlap.read,
                                            SummariesOf(monthly, customer_id, m),
                                            SummariesOf(monthly', customer_id, m))
                      /\ aggOverlap' = rest
                      /\ jobLog' = jobLog
       IN \/ /\ aggOverlap.existing # 0
             /\ monthly' = summary_set_value(monthly, aggOverlap.existing, v)
             /\ nextSummary' = nextSummary
             /\ written
          \/ /\ aggOverlap.existing = 0
             /\ monthly' = summary_insert(monthly, nextSummary + 1,
                                          customer_id, m, v)
             /\ nextSummary' = nextSummary + 1
             /\ written
          \/ /\ aggOverlap.existing = 0
             /\ SummariesOf(monthly, customer_id, m) # {}
             /\ jobLog' = jobLog \cup {"usage_aggregation"}
             /\ aggOverlap' = IdleJob
             /\ UNCHANGED <<monthly, nextSummary, aggHist>>
    /\ UNCHANGED <<invoices, aggJob, invJob, aggRuns, invRuns, dayTicks,
                   outbox>>
    /\ UNCHANGED <<authVars, oauthVars, ledgerVars>>

NextOverlap ==
    \/ aggregate_usage_metrics
    \/ aggregate_customer_metrics
    \/ aggregate_usage_metrics_again
    \/ overlap_read
    \/ overlap_write
    \/ \E tok \in CurrentAccessTokens, n \in ReportCounts, c \in ReportCosts :
         nextLedReq < MaxJobReports /\ report_usage(tok, "message", n, 0, c)
    \/ \E r \in ledReqs : record_write(r)

SpecOverlap == InitJobs /\ [][NextOverlap]_vars

RunsOn(job, t) ==
    job.pc # "idle" /\ \E k \in DOMAIN job.todo : job.todo[k] = t

OneSummaryPerKey ==
    \A s1 \in monthly : \A s2 \in monthly :
       (s1.customer = s2.customer /\ s1.month = s2.month) => s1 = s2

\* C25: two aggregation runs are never at work with the same tenant still
\* ahead of both, so that there is at most one Monthly Usage Summary for a
\* tenant and a month and no summary counts more than the rows that the run
\* which wrote it has read.
C25_RunsNeverOverlap ==
    /\ \A t \in Tenants : ~(RunsOn(aggJob, t) /\ RunsOn(aggOverlap, t))
    /\ OneSummaryPerKey
    /\ \A key \in DOMAIN aggHist :
          \A s \in aggHist[key].after :
             s.total_messages <= SumOf(aggHist[key].read, "total_messages")

-----------------------------------------------------------------------------
(* A ledger write that fails after the provider call: SpecLedger.          *)

\* C26: when the ledger write of a request whose provider call succeeded
\* fails, the write is tried again, and when it is given up the event is
\* logged.
C26_FailedUpsertRetriedOrLogged ==
    [][\A r \in ledReqs :
          (/\ r.pc = "write"
           /\ r.op \in {"message", "call_end"}
           /\ r \notin ledReqs'
           /\ daily' = daily) =>
              \/ \E q \in ledReqs' : q.rid = r.rid /\ q.pc = "write"
              \/ jobLog' # jobLog]_vars

-----------------------------------------------------------------------------
(* Requests that fail authentication or validation, on every endpoint.     *)

MediaTypes == {"image", "video", "document", "audio"}

\* The two checks of the send_* handlers on the parsed body: every required
\* parameter is there, and send_media's media_type is a known one.
message_params_valid(endpoint, present, media_type) ==
    present /\ (endpoint = "send_media" => media_type \in MediaTypes)

NextRequests ==
    \/ \E e \in MessageEndpoints, tok \in BearerTokens, present \in BOOLEAN,
          mt \in {"image", "sticker"}, p \in ProviderOutcomes :
         /\ nextLedReq < MaxJobReports \/ ~message_params_valid(e, present, mt)
         /\ send_message(e, tok, message_params_valid(e, present, mt), p)
    \/ \E tok \in BearerTokens, u \in UsageTypes, n \in ReportCounts,
          d \in ReportDurations, c \in ReportCosts :
         /\ nextLedReq < MaxJobReports \/ u \notin {"call", "message"}
         /\ report_usage(tok, u, n, d, c)
    \/ \E tok \in BearerTokens, ok \in BOOLEAN, restricted \in BOOLEAN,
          janus \in BOOLEAN :
         initiate(tok, ok, restricted, janus)
    \/ \E tok \in BearerTokens, id \in 0..MaxSessions, d \in CallDurations :
         /\ nextLedReq < MaxJobReports \/ id = 0
         /\ end(tok, id, d)
    \/ \E tok \in BearerTokens, id \in 0..MaxSessions : call_status(tok, id)
    \/ \E r \in ledReqs : record_write(r)
    \/ \E r \in ledReqs : end_cleanup(r)

SpecRequests == InitCalls /\ [][NextRequests]_vars

\* The step answers with an authentication or validation error and leaves
\* the cache, the issued tokens, the ledger and the recording requests alone.
RefusedUntouched ==
    /\ reply'.result \in {"AuthenticationError", "ValidationError"}
    /\ oauthCodes' = oauthCodes
    /\ sessions' = sessions
    /\ minted' = minted
    /\ daily' = daily
    /\ ledReqs' = ledReqs
    /\ asked' = asked

Unauthenticated(tok) ==
    authenticate_request(tok, now, status) = "AuthenticationError"

\* C27: a send_template, send_text, send_media, report_usage, initiate, end
\* or status request whose bearer token is refused or whose parameters are
\* invalid (a required one missing, a usage_type other than call or message,
\* an unknown media_type) is answered with that error whatever the provider
\* would have answered, and changes no cache entry and no ledger row.
C27_RefusedRequestsTouchNothing ==
    [][\/ RefusedUntouched
       \/ /\ reply'.op = "send_message" =>
                \A e \in MessageEndpoints, tok \in BearerTokens,
                   present \in BOOLEAN, mt \in {"image", "sticker"},
                   p \in ProviderOutcomes :
                  (Unauthenticated(tok)
                      \/ ~message_params_valid(e, present, mt))
                     => ~send_message(e, tok,
                                      message_params_valid(e, present, mt), p)
          /\ reply'.op = "report_usage" =>
                \A tok \in BearerTokens, u \in UsageTypes :
                  (authenticate_request_metrics(tok, now, status)
                       = "AuthenticationError" \/ u \notin {"call", "message"})
                     => ~report_usage(tok, u, 1, 60, 50)
          /\ reply'.op = "initiate" =>
                \A tok \in BearerTokens, ok \in BOOLEAN,
                   restricted \in BOOLEAN, janus \in BOOLEAN :
                  (Unauthenticated(tok) \/ ~ok)
                     => ~initiate(tok, ok, restricted, janus)
          /\ reply'.op \in {"end", "status"} =>
                \A tok \in BearerTokens, id \in 0..MaxSessions :
                  (Unauthenticated(tok) \/ id = 0)
                     => ~end(tok, id, 120) /\ ~call_status(tok, id)]_vars

\* A send request with invalid parameters has been refused after a message
\* of the same tenant was recorded, and the row is as it was.
C27_Witness ==
    /\ reply = Reply("send_message", "t1", "ValidationError")
    /\ \E x \in daily : x.customer = "t1" /\ x.total_messages = 1
    /\ ledReqs = {}

-----------------------------------------------------------------------------
(* The life of a customer: register, onboarding, activate, suspend.        *)

\* A registration that creates the customer Active.
register_active(t, fields_ok) ==
    /\ IF ~fields_ok \/ status[t] # "Absent"
         THEN UNCHANGED <<status, frappe_site_url>>
       ELSE /\ status' = [status EXCEPT ![t] = "Active"]
            /\ frappe_site_url' = [frappe_site_url EXCEPT ![t] = SiteUrl(t)]
    /\ UNCHANGED <<now, minted, embedded_signup_completed, oauthCodes,
                   nextCode, tokReqs, nextReq, redeemed, grants, last, ticks,
                   settings>>
    /\ UNCHANGED <<ledgerVars, jobVars>>

\* customers.register: refused when a required field is missing or a
\* customer with that email exists; else the customer is inserted with
\* status "Pending" and the site URL it gave.
register(t, fields_ok) ==
    /\ IF ~fields_ok \/ status[t] # "Absent"
         THEN UNCHANGED <<status, frappe_site_url>>
       ELSE /\ status' = [status EXCEPT ![t] = "Pending"]
            /\ frappe_site_url' = [frappe_site_url EXCEPT ![t] = SiteUrl(t)]
    /\ UNCHANGED <<now, minted, embedded_signup_completed, oauthCodes,
                   nextCode, tokReqs, nextReq, redeemed, grants, last, ticks,
                   settings>>
    /\ UNCHANGED <<ledgerVars, jobVars>>

\* embedded_signup.callback for a session of customer t: when the exchange
\* with Meta succeeds the WABA references and embedded_signup_completed = 1
\* are saved on the customer; its status is not written.  When it fails
\* only the session is marked.
callback(t, exchange_ok) ==
    /\ status[t] # "Absent"
    /\ embedded_signup_completed' =
         IF exchange_ok THEN [embedded_signup_completed EXCEPT ![t] = TRUE]
         ELSE embedded_signup_completed
    /\ UNCHANGED <<now, status, minted, oauthVars, ledgerVars, jobVars>>

InitLifecycle ==
    /\ InitBlank
    /\ status = [t \in Tenants |-> "Absent"]
    /\ embedded_signup_completed = [t \in Tenants |-> FALSE]
    /\ frappe_site_url = [t \in Tenants |-> <<>>]

NextLifecycle ==
    \/ \E t \in Tenants, ok \in BOOLEAN : register(t, ok)
    \/ \E t \in Tenants, ok \in BOOLEAN : callback(t, ok)
    \/ \E t \in Tenants : suspend(t)
    \/ \E t \in Tenants : activate(t)
    \/ \E c \in Tenants, u \in RedirectUris : authorize(c, u, "code")
    \/ \E g \in {"authorization_code", "refresh_token"}, c \in Tenants,
          k \in {NoCode} \cup Codes, u \in RedirectUris :
         token(g, c, SecretOf(c), k, u, NoToken)
    \/ \E r \in tokReqs : token_redeem(r)

SpecLifecycle == InitLifecycle /\ [][NextLifecycle]_vars

\* C28: a customer that register() creates is Pending; a customer becomes
\* Active only in a step of activate() or in one that completes its
\* onboarding; for a Pending customer authorize() stores no code and token()
\* answers invalid_client and mints nothing; and activate() takes a
\* Suspended customer to Active.
C28_PendingUntilActivated ==
    [][/\ \A t \in Tenants :
             /\ (status[t] = "Absent" /\ status'[t] # "Absent")
                   => status'[t] = "Pending"
             /\ (status[t] # "Active" /\ status'[t] = "Active")
                   => \/ activate(t)
                      \/ /\ ~embedded_signup_completed[t]
                         /\ embedded_signup_completed'[t]
             /\ (status[t] = "Suspended" /\ activate(t))
                   => status'[t] = "Active"
       /\ \A k \in DOMAIN oauthCodes' \ DOMAIN oauthCodes :
             status[oauthCodes'[k].customer_id] = "Active"
       /\ (last'.op = "token" \/ tokReqs' # tokReqs \/ minted' # minted) =>
             \/ /\ last'.error = "invalid_client"
                /\ minted' = minted
                /\ tokReqs' = tokReqs
             \/ \A c \in Tenants :
                   status[c] = "Pending" =>
                      \A g \in {"authorization_code", "refresh_token"},
                         k \in {NoCode} \cup Codes, u \in RedirectUris :
                         ~token(g, c, SecretOf(c), k, u, NoToken)]_vars

\* t1 was activated and has been given a code; t2 has completed its
\* onboarding, is still Pending, and its token() call with the right secret
\* was answered invalid_client.
C28_Witness ==
    /\ status["t1"] = "Active"
    /\ \E k \in DOMAIN oauthCodes : oauthCodes[k].customer_id = "t1"
    /\ status["t2"] = "Pending"
    /\ embedded_signup_completed["t2"]
    /\ last.op = "token"
    /\ last.error = "invalid_client"

-----------------------------------------------------------------------------
(* What authorize() does to the cache: SpecRedirect.                       *)

\* The request passes every check of authorize().
AuthorizeSucceeds(c, u, rt) ==
    /\ c # "" /\ u # <<>> /\ rt = "code"
    /\ c \in Tenants
    /\ status[c] = "Active"
    /\ BeginsWithSite(c, u)

\* Exactly one entry was added, under a code never drawn before, carrying
\* tenant c and redirect_uri u; every other entry is as it was.
OneFreshEntry(c, u) ==
    /\ Cardinality(DOMAIN oauthCodes' \ DOMAIN oauthCodes) = 1
    /\ \A k \in DOMAIN oauthCodes' \ DOMAIN oauthCodes :
          /\ k \notin 1..nextCode
          /\ oauthCodes'[k].customer_id = c
          /\ oauthCodes'[k].redirect_uri = u
    /\ \A k \in DOMAIN oauthCodes :
          k \in DOMAIN oauthCodes' /\ oauthCodes'[k] = oauthCodes[k]

\* C29: an authorize() call that passes its checks adds exactly one cache
\* entry, keyed by a fresh code, whose payload carries the tenant owning the
\* client_id and the redirect_uri supplied; a call that fails (a missing
\* parameter, a response_type other than "code", an unknown client, a client
\* that is not Active, a redirect_uri that is refused) adds no entry and
\* changes none.
C29_AuthorizeStoresOneEntry ==
    [][(last'.op = "authorize" /\ last' # last) =>
          \A c \in ClientIds \cup {""}, u \in RedirectUris \cup {<<>>},
             rt \in ResponseTypes :
             authorize(c, u, rt) =>
                IF AuthorizeSucceeds(c, u, rt) THEN OneFreshEntry(c, u)
                ELSE oauthCodes' = oauthCodes /\ nextCode' = nextCode]_vars

\* Two codes are stored, for different tenants, and the latest authorize()
\* call, made for a Suspended tenant, was refused.
C29_Witness ==
    /\ Cardinality(DOMAIN oauthCodes) = 2
    /\ \E j \in DOMAIN oauthCodes, k \in DOMAIN oauthCodes :
          oauthCodes[j].customer_id # oauthCodes[k].customer_id
    /\ last.op = "authorize"
    /\ last.error = "throw"
    /\ last.error_description = ERR_CUSTOMER_NOT_FOUND
    /\ \E t \in Tenants : status[t] = "Suspended"

-----------------------------------------------------------------------------
(* The lifetimes of minted tokens, with and without a configured TTL.      *)

\* WhatsApp Provider Settings saved with other token lifetimes; validate()
\* puts no condition on them.
save_settings(s) ==
    /\ settings' = s
    /\ UNCHANGED <<now, status, embedded_signup_completed, minted, oauthCodes,
                   nextCode, tokReqs, nextReq, redeemed, grants, last, ticks,
                   frappe_site_url>>
    /\ UNCHANGED <<ledgerVars, jobVars>>

NextExpiry ==
    \/ \E c \in Tenants, tok \in minted : refresh(c, SecretOf(c), tok)
    \/ \E tok \in minted : validate_token_call(tok)
    \/ \E d \in TickSteps : Tick(d)
    \/ \E a \in {0, CODE_TTL} :
         save_settings([oauth_token_expiry_seconds |-> a,
                        oauth_refresh_expiry_seconds |-> 0])

SpecExpiry == InitTokens /\ [][NextExpiry]_vars

\* What the step minted is one pair issued now: an access and a refresh
\* token of one tenant, with the default lifetimes where none is configured,
\* and expires_in is the lifetime of the access token.
MintedOnePair ==
    \E a \in minted', r \in minted' :
       /\ minted' = minted \cup {a, r}
       /\ a.type = "access" /\ r.type = "refresh"
       /\ a.customer_id = r.customer_id
       /\ a.iat = now /\ r.iat = now
       /\ settings.oauth_token_expiry_seconds = 0
             => a.exp = a.iat + 3600
       /\ settings.oauth_refresh_expiry_seconds = 0
             => r.exp = r.iat + 2592000
       /\ generate_tokens(a.customer_id, settings, now).expires_in
             = a.exp - a.iat

\* Every minted token that has reached its exp is refused by validate_token
\* and by the checks of the refresh grant, for every client.
ExpiredRejected ==
    \A tok \in minted :
       tok.exp <= now =>
          /\ validate_token(tok, now, status) = "None"
          /\ \A c \in Tenants : refresh_token_check(c, tok, now) # "ok"

\* C30: every step that mints tokens mints one pair, an access token with
\* exp = iat + 3600 and a refresh token with exp = iat + 2,592,000 unless
\* the settings configure another lifetime, both of the same tenant, with
\* expires_in the lifetime of the access token; and a token presented at or
\* after its exp is refused by validate_token and by the refresh grant.
C30_TokenLifetimes ==
    [][/\ minted' # minted => MintedOnePair
       /\ ExpiredRejected'
       /\ (last' # last /\ last'.tok.exp <= now) =>
             /\ last'.op = "validate_token" => last'.customer = "None"
             /\ last'.op = "refresh" =>
                   last'.error = "invalid_grant" /\ minted' = minted]_vars

\* An access token presented at the very second of its exp was refused by
\* validate_token, after a pair with the default lifetimes was minted at
\* that same second.
C30_Witness ==
    /\ last.op = "validate_token"
    /\ last.tok.type = "access"
    /\ last.tok \in minted
    /\ last.tok.exp = now
    /\ last.customer = "None"
    /\ \E a \in minted, r \in minted :
          /\ a.customer_id = r.customer_id
          /\ a.iat = now /\ r.iat = now /\ now > 0
          /\ a.type = "access" /\ a.exp = a.iat + 3600
          /\ r.type = "refresh" /\ r.exp = r.iat + 2592000

-----------------------------------------------------------------------------
(* Redeemed and never-issued codes at the token endpoint (SpecCode) *)

\* C31: the failure token() returns for a code that was already redeemed is
\* distinguishable from the failure it returns for a code that was never
\* issued: whenever a code has been redeemed, the error and description an
\* authenticated client gets for it differ from those the same client gets,
\* with the same redirect_uri, for a code authorize() never handed out.
C31_RedeemedDistinctFromNeverIssued ==
    \A k \in redeemed : \A n \in (nextCode + 1)..(MaxCodes + 1) :
       \A c \in Tenants : \A u \in RedirectUris :
          authorization_code_check(c, k, u, oauthCodes, now)
             # authorization_code_check(c, n, u, oauthCodes, now)

-----------------------------------------------------------------------------
(* Metering of call sessions (SpecCalls) *)

\* C32: each call session is metered exactly once: the calls counted in the
\* ledger never exceed the sessions that were initiated, whether the end()
\* requests for a session come one after the other or at the same time, and
\* once an end() has succeeded and deleted the session, status() given that
\* call_session_id answers not_found.
C32_SessionMeteredOnce ==
    /\ SumOf(daily, "total_calls") <= nextSession
    /\ (reply.op = "status" /\ sessions = <<>> /\ reply.customer \in Tenants)
          => reply.result \in {"not_found", "ValidationError"}

-----------------------------------------------------------------------------
(* The three rounded values of a call cost (SpecCost) *)

\* C33: for every duration in seconds and every plan markup percentage in
\* 0..100 (and for a customer without a plan), the three rounded values
\* _calculate_call_cost returns satisfy total_cost = base_cost + markup
\* exactly, so that what a call end adds to total_revenue equals what it
\* adds to total_call_cost plus what it adds to total_markup.
C33_TotalIsBasePlusMarkup ==
    reply.op = "call_cost" =>
        reply.result.cost.total_cost =
            reply.result.cost.base_cost + reply.result.cost.markup

-----------------------------------------------------------------------------
(* Failed requests at the token endpoints.  Tenants obtain codes from       *)
(* authorize() and present them, or the refresh tokens they were granted,   *)
(* with right and wrong credentials, codes, redirect URIs and grant types.  *)

NextGrant ==
    \/ \E c \in Tenants, u \in RedirectUris : authorize(c, u, "code")
    \/ \E g \in AllGrantTypes, c \in ClientIds \cup {""}, s \in Secrets,
          k \in {NoCode} \cup Codes, u \in RedirectUris,
          tok \in RefreshTokens \cup {NoToken} :
         token(g, c, s, k, u, tok)
    \/ \E r \in tokReqs : token_redeem(r)
    \/ \E c \in ClientIds, s \in Secrets, tok \in PresentableTokens :
         refresh(c, s, tok)

SpecGrant == InitCode /\ [][NextGrant]_vars

\* The code is in the Token Store and the request of the tenant it was
\* issued to, with the redirect_uri it was issued for, passes the checks.
Redeemable(cache, k, t) ==
    /\ CacheGet(cache, k, t) # NoEntry
    /\ authorization_code_check(CacheGet(cache, k, t).customer_id, k,
                                CacheGet(cache, k, t).redirect_uri,
                                cache, t)[2] = "ok"

\* C34: every token() or refresh() request that returns an error
\* (invalid_client, invalid_request, invalid_grant, unsupported_grant_type,
\* or the exception for an unknown client) leaves the Token Store and the
\* record of issued tokens unchanged: a code presented in the failed request
\* that was outstanding is not consumed and is still redeemable afterwards.
C34_FailedRequestKeepsStore ==
    [][(last' # last /\ last'.op \in {"token", "refresh"} /\ last'.error # "")
         => /\ oauthCodes' = oauthCodes
            /\ UNCHANGED <<minted, redeemed, grants, tokReqs, nextCode>>
            /\ Redeemable(oauthCodes, last'.code, now)
                  => Redeemable(oauthCodes', last'.code, now')]_vars

\* C34 witness: token() refused an outstanding code, presented by the wrong
\* tenant or with the wrong redirect_uri, and the code is still in the store
\* and redeemable.
C34_Witness ==
    /\ last.op = "token"
    /\ last.error = "invalid_grant"
    /\ last.error_description \in
          {"Code not issued to this client", "redirect_uri mismatch"}
    /\ last.code \notin redeemed
    /\ Redeemable(oauthCodes, last.code, now)

-----------------------------------------------------------------------------
(* Invoicing with inserts that can fail *)

\* A failed turn that sets invoice_generated all the same.
generate_customer_invoice_failed_marked ==
    /\ invJob.pc = "running"
    /\ monthly' = mark_invoiced(monthly, Head(invJob.todo).name)
    /\ jobLog' = jobLog \cup {"invoice_generation"}
    /\ invJob' = IdleJob
    /\ UNCHANGED <<nextSummary, invoices, aggJob, aggRuns, invRuns,
                   dayTicks, outbox, aggHist, aggOverlap>>
    /\ UNCHANGED <<authVars, oauthVars, ledgerVars>>

\* A turn of the loop in which invoice.insert() raises (validate, a link
\* that no longer resolves, a database error): no invoice row is written,
\* set_value and commit are not reached, the exception leaves the loop and
\* the except clause of generate_monthly_invoices logs it and ends the run.
generate_customer_invoice_failed ==
    /\ invJob.pc = "running"
    /\ jobLog' = jobLog \cup {"invoice_generation"}
    /\ invJob' = IdleJob
    /\ UNCHANGED <<monthly, nextSummary, invoices, aggJob, aggRuns, invRuns,
                   dayTicks, outbox, aggHist, aggOverlap>>
    /\ UNCHANGED <<authVars, oauthVars, ledgerVars>>

NextInvoice ==
    \/ aggregate_usage_metrics
    \/ aggregate_customer_metrics
    \/ generate_monthly_invoices
    \/ generate_customer_invoice
    \/ generate_customer_invoice_failed
    \/ \E k \in DaySteps : new_day(k)

SpecInvoice == InitJobs /\ [][NextInvoice]_vars

\* A Customer Invoice exists for the summary's tenant and month.
HasInvoice(s, inv) ==
    \E i \in inv : /\ i.customer = s.customer
                   /\ i.invoice_period_start = month_start(s.month)
                   /\ i.invoice_period_end = month_end(s.month)

\* C35: after every step, a Monthly Usage Summary has invoice_generated
\* only if a Customer Invoice exists for its tenant and its month: the turn
\* that inserts the invoice is the one that sets the flag, and a turn whose
\* insert fails (the run ends with no invoice added) changes no summary.
C35_FlagOnlyWithInvoice ==
    [][/\ \A s \in monthly' : s.invoice_generated => HasInvoice(s, invoices')
       /\ \A s \in monthly' :
             (/\ s.invoice_generated
              /\ \A x \in monthly : x.name = s.name => ~x.invoice_generated)
                => invoices' # invoices
       /\ (invJob.pc = "running" /\ invJob' # invJob /\ invoices' = invoices)
             => monthly' = monthly]_vars

\* C35 witness: an invoicing run ended on a failed insert after it had
\* invoiced one summary: that summary is flagged and has its invoice, the
\* other summary of the month is not flagged and has none.
C35_Witness ==
    /\ "invoice_generation" \in jobLog
    /\ invJob.pc = "idle"
    /\ \E s \in monthly : s.invoice_generated /\ HasInvoice(s, invoices)
    /\ \E s \in monthly : ~s.invoice_generated /\ ~HasInvoice(s, invoices)

-----------------------------------------------------------------------------
(* Usage recorded late in a month and the invoice of that month: SpecJobs.  *)

\* C36: when the invoicing job creates the invoice for a summary of month M,
\* the Monthly Usage Summary of that tenant and month includes every usage
\* increment recorded for the tenant on a date in M, those recorded after
\* the last aggregation run that took place during M too: its totals are the
\* sums over the tenant's Daily Usage Rows of M (as long as these rows are
\* within the retention period and none has been cleaned up).
C36_LateUsageInvoiced ==
    [][(invoices' # invoices
        /\ month_start(invJob.month) >= today - USAGE_METRICS_RETENTION_DAYS)
         => \A s \in monthly :
               s.name = Head(invJob.todo).name =>
                  SummaryMatchesLedger(s, daily, s.customer, s.month)]_vars

-----------------------------------------------------------------------------
(* What a message send writes to the ledger: SpecLedger.                   *)

\* The columns of a Daily Usage Row other than total_messages.
OtherThanMessages == NumericFields \ {"total_messages"}

-----------------------------------------------------------------------------
(* Two tenants recording and reading usage side by side.  On day 8 the      *)
(* ledger holds rows of both tenants from day 1 and, or not, a row of t1    *)
(* from today; each tenant holds a current access token.                    *)

InitIsolation ==
    /\ InitServing
    /\ sessions = <<>>
    /\ nextSession = 0
    /\ today = 8
    /\ \E S \in {{1}, {1, 8}} :
          /\ daily = Ledger(S)
          /\ nextRow = Cardinality(S) + 1

NextIsolation ==
    \/ \E tok \in CurrentAccessTokens : initiate(tok, TRUE, FALSE, TRUE)
    \/ \E tok \in CurrentAccessTokens, id \in 1..MaxSessions,
          d \in CallDurations :
         end(tok, id, d)
    \/ \E r \in ledReqs : end_cleanup(r)
    \/ \E e \in MessageEndpoints, tok \in CurrentAccessTokens :
         send_message(e, tok, TRUE, "200")
    \/ \E tok \in CurrentAccessTokens, u \in JobUsageTypes,
          n \in ReportCounts, d \in ReportDurations, c \in ReportCosts :
         report_usage(tok, u, n, d, c)
    \/ \E r \in ledReqs : record_write(r)
    \/ \E tok \in CurrentAccessTokens, period \in {"today", "week", "month"} :
         get_usage_summary(tok, period, NoDate, NoDate)

SpecIsolation == InitIsolation /\ [][NextIsolation]_vars

\* The rows that are not keyed (customer, date).
RowsNotOf(rows, customer, date) ==
    {x \in rows : ~(x.customer = customer /\ x.date = date)}

\* C38: a usage-recording operation authenticated as tenant A (report_usage,
\* call end, message send) changes only the Daily Usage Row keyed (A, today):
\* every step that changes the ledger is the write of one recording request,
\* and it leaves every row of another tenant and every row of A for another
\* date as it was; and what get_usage_summary answers to A are the sums over
\* rows of A alone.
C38_OnlyOwnRowOfToday ==
    [][/\ daily' # daily =>
             \E r \in ledReqs \ ledReqs' :
                /\ r.pc = "write"
                /\ r.customer \in Tenants
                /\ r.date = today
                /\ RowsNotOf(daily', r.customer, r.date)
                      = RowsNotOf(daily, r.customer, r.date)
       /\ (reply' # reply /\ reply'.op = "usage_summary"
           /\ reply'.customer \in Tenants) =>
             LET res == reply'.result
                 R == {x \in daily' : /\ x.customer = reply'.customer
                                      /\ x.date >= res.range[1]
                                      /\ x.date <= res.range[2]}
             IN /\ res.total_calls = SumOf(R, "total_calls")
                /\ res.total_messages = SumOf(R, "total_messages")
                /\ res.daily = {x.date : x \in R}]_vars

\* C38 witness: t2 has recorded usage today, in a row of its own, while the
\* rows of t1 and t2's row of day 1 are those the ledger started with, and
\* t1 has just read a summary of the month that counts its own calls only.
C38_Witness ==
    /\ \E x \in daily : x.customer = "t2" /\ x.date = today
    /\ RowsNotOf(daily, "t2", today) \in {Ledger({1}), Ledger({1, 8})}
    /\ reply.op = "usage_summary"
    /\ reply.customer = "t1"
    /\ reply.result.period = "month"
    /\ reply.result.total_calls
          = Cardinality({x \in daily : x.customer = "t1"})

-----------------------------------------------------------------------------
(* refresh() against the refresh_token grant of token(): SpecTokens.       *)

\* The answers the two endpoints give: error, description and tenant.
RefreshOutcomes ==
    {<<"throw", "DoesNotExistError", "None">>,
     <<"invalid_client", ERR_OAUTH_FAILED, "None">>}
    \cup {<<"invalid_grant", d, t>> :
             d \in {ERR_INVALID_TOKEN, "Refresh token expired"}, t \in Tenants}
    \cup {<<"", "", t>> : t \in Tenants}

\* The token sets a call can add to the issued ones: none, or a tenant's pair.
RefreshMints ==
    {{}} \cup {{generate_tokens(t, settings, now).access_token,
                generate_tokens(t, settings, now).refresh_token} :
               t \in Tenants}

\* The step answers o and issues exactly the tokens M.
Answers(o, M) ==
    /\ last'.error = o[1]
    /\ last'.error_description = o[2]
    /\ last'.customer = o[3]
    /\ minted' = minted \cup M

\* The step changes something that is stored: a cached code, a customer, the
\* settings, or a row of the ledger, the summaries or the invoices.
ChangesStored ==
    \/ oauthCodes' # oauthCodes
    \/ status' # status
    \/ settings' # settings
    \/ frappe_site_url' # frappe_site_url
    \/ daily' # daily
    \/ sessions' # sessions
    \/ monthly' # monthly
    \/ invoices' # invoices

\* C39: refresh() and token(grant_type=refresh_token) are equivalent: in
\* every state, for every client_id, client_secret and non-empty
\* refresh_token, both answer, they give the same outcome (a token pair for
\* the same tenant, or the same error with the same description), that
\* outcome is one of the listed ones, and neither changes any stored state.
C39_RefreshEquivalent ==
    \A c \in ClientIds \cup {""}, s \in Secrets, tok \in PresentableTokens :
       /\ ENABLED refresh(c, s, tok)
       /\ ENABLED token("refresh_token", c, s, NoCode, <<>>, tok)
       /\ \A o \in RefreshOutcomes, M \in RefreshMints :
             (ENABLED (refresh(c, s, tok) /\ Answers(o, M)))
                <=> (ENABLED (token("refresh_token", c, s, NoCode, <<>>, tok)
                              /\ Answers(o, M)))
       /\ \E o \in RefreshOutcomes, M \in RefreshMints :
             ENABLED (refresh(c, s, tok) /\ Answers(o, M))
       /\ ~ENABLED (refresh(c, s, tok) /\ ChangesStored)
       /\ ~ENABLED (token("refresh_token", c, s, NoCode, <<>>, tok)
                    /\ ChangesStored)

\* C39 witness: refresh() has just answered t1's refresh token with a new
\* pair, and the refresh_token grant of token() would answer the same
\* request with the same pair; refresh() rejects t1's access token, and so
\* does token().
C39_Witness ==
    /\ last.op = "refresh"
    /\ last.error = ""
    /\ last.customer = "t1"
    /\ last.tok.type = "refresh"
    /\ jwt_decode(last.tok, now) = "ok"
    /\ ENABLED (/\ token("refresh_token", "t1", "s1", NoCode, <<>>, last.tok)
                /\ Answers(<<"", "", "t1">>,
                           {generate_tokens("t1", settings, now).access_token,
                            generate_tokens("t1", settings, now).refresh_token}))
    /\ \E tok \in minted :
          /\ tok.type = "access" /\ tok.customer_id = "t1"
          /\ jwt_decode(tok, now) = "ok"
          /\ ENABLED (refresh("t1", "s1", tok)
                      /\ Answers(<<"invalid_grant", ERR_INVALID_TOKEN, "t1">>, {}))

-----------------------------------------------------------------------------
(* Call sessions and the tenants that do not own them: SpecCalls.          *)

\* The session exists and belongs to a customer other than the one the
\* token authenticates.
ForeignSession(tok, id) ==
    /\ authenticate_request(tok, now, status) \in Tenants
    /\ SessionGet(sessions, id) # NoSession
    /\ SessionGet(sessions, id).customer_id
          # authenticate_request(tok, now, status)

\* C40: a call session can be ended or inspected only by the tenant that
\* initiated it: end() by any other authenticated tenant fails, deletes no
\* session, starts no recording and changes no ledger row; status() by any
\* other tenant answers not_found, as it does for a session that does not
\* exist; and every call end that goes on to record is the owner's.
C40_OnlyOwnerEndsOrInspects ==
    [][/\ \A tok \in BearerTokens, id \in 1..MaxSessions, d \in CallDurations :
             (ForeignSession(tok, id) /\ end(tok, id, d)) =>
                /\ reply'.op = "end"
                /\ reply'.result = "not_owner"
                /\ UNCHANGED <<sessions, daily, ledReqs, nextRow>>
       /\ \A tok \in BearerTokens, id \in 1..MaxSessions :
             (/\ authenticate_request(tok, now, status) \in Tenants
              /\ (ForeignSession(tok, id) \/ SessionGet(sessions, id) = NoSession)
              /\ call_status(tok, id)) =>
                /\ reply'.result = "not_found"
                /\ UNCHANGED <<sessions, daily, ledReqs>>
       /\ \A r \in ledReqs' \ ledReqs :
             (r.op = "call_end" /\ r.pc = "write") =>
                SessionGet(sessions, r.session).customer_id = r.customer]_vars

\* C40 witness: t2, authenticated, has just tried to end the session t1
\* initiated: it was refused, the session is still there, no call end is
\* being recorded and the ledger has no row.
C40_Witness ==
    /\ reply = Reply("end", "t2", "not_owner")
    /\ 1 \in DOMAIN sessions
    /\ sessions[1].customer_id = "t1"
    /\ ledReqs = {}
    /\ daily = {}

=============================================================================
